---------------------------- MODULE Spec2Model ----------------------------
(***************************************************************************)
(* A model of src/main.py, the NeoWS proxy: the metrics extractor, the     *)
(* threat classifier, the mitigation advisor, the physical-parameter       *)
(* resolver with its cache, the impact engine, the filter predicate and    *)
(* the routes with the fetch cache.                                        *)
(*                                                                         *)
(* Conventions.  A Python value that may be None is a sequence of length   *)
(* at most one: None is <<>> and a present value x is <<x>>.  Lengths      *)
(* that the code carries as floating-point kilometres are carried here as  *)
(* whole metres (0.05 km is 50), densities as thousandths of g/cm^3        *)
(* (2.5 g/cm^3 is 2500), scores as half points; miss distances are whole   *)
(* kilometres, velocities whole km/s, times whole seconds.  Real           *)
(* arithmetic is exact here; floating-point rounding is not modelled.      *)
(* A call that ends in an uncaught exception returns Raise(..), a call     *)
(* that returns v returns Return(v).                                       *)
(***************************************************************************)
EXTENDS Integers, Sequences, FiniteSets, TLC

VARIABLES
    op,            \* the function or route that ran last ("init" before any)
    arg,           \* its inputs
    ret,           \* its outcome
    prev,          \* the call before it: [op, arg, ret], None before two calls
    clock,         \* time.time(), in seconds
    cache,         \* _cache: key -> None or <<[exp, data]>>
    enrich_cache,  \* _enrich_cache: label -> None or <<[exp, data]>>
    world,         \* what the upstream services answer (the environment)
    served,        \* how many requests the routes have served
    threads        \* the worker threads inside _cache_get or _cache_set:
                   \* thread -> [pc, key, item, exp, data]; <<>> when the
                   \* calls are made one after the other

vars ==
    <<op, arg, ret, prev, clock, cache, enrich_cache, world, served, threads>>

----------------------------------------------------------------------------
(* Python values *)

None == <<>>

Some(x) == <<x>>

\* Python truthiness of an optional number: None and 0 are falsy.
Truthy(x) == x # None /\ x[1] # 0

Return(v) == [ok |-> TRUE, val |-> v]

Raise(e) == [ok |-> FALSE, err |-> e]

Min2(a, b) == IF a < b THEN a ELSE b

SetMin(S) == CHOOSE x \in S : \A y \in S : x <= y

----------------------------------------------------------------------------
(* Bounds of the model *)

\* The longest close_approach_data list of a record.
MaxApproaches == 2

----------------------------------------------------------------------------
(* Timestamps: _parse_iso *)

DaySecs == 86400

\* A date string, by the branch of _parse_iso that accepts it:
\*   none   the field is absent, null or empty
\*   aware  ISO 8601 with an offset or Z         ("2031-01-01T10:00Z")
\*   naive  ISO 8601 without an offset            ("2031-01-01", NeoWS's
\*          close_approach_date)
\*   alt    rejected by fromisoformat, accepted by one of the strptime
\*          formats                               ("2031-1-1")
\*   bad    accepted by none                      ("2031-Jan-01 10:00", NeoWS's
\*          close_approach_date_full)
\* t is the instant the string denotes (an offset-free string read as UTC).
NoStr == [kind |-> "none", t |-> 0]

BadStr == [kind |-> "bad", t |-> 0]

DateStr(kind, t) == [kind |-> kind, t |-> t]

\* The datetime _parse_iso returns: fromisoformat keeps the string's own
\* awareness, the strptime formats are stamped UTC, and a string no format
\* accepts yields datetime.now(timezone.utc), read here as `tnow`.
_parse_iso(dt, tnow) ==
    CASE dt.kind = "aware" -> [tz |-> "aware", t |-> dt.t]
      [] dt.kind = "naive" -> [tz |-> "naive", t |-> dt.t]
      [] dt.kind = "alt"   -> [tz |-> "aware", t |-> dt.t]
      [] OTHER             -> [tz |-> "aware", t |-> tnow]

\* ap.get("close_approach_date_full") or ap.get("close_approach_date")
ApproachDateStr(ap) ==
    IF ap.close_approach_date_full.kind # "none"
    THEN ap.close_approach_date_full
    ELSE ap.close_approach_date

----------------------------------------------------------------------------
(* compute_metrics *)

\* One pass of the loop body over a close-approach entry.  miss and vel are
\* None when the key is missing or float() rejects the text: the exception
\* is raised before anything is updated and the entry is skipped.  Comparing
\* an offset-aware with an offset-naive datetime raises TypeError after
\* min_miss and max_rel_vel_kms were updated.
MetricsStep(acc, ap, tnow) ==
    IF ap.miss = None \/ ap.vel = None THEN acc
    ELSE
      LET dt_str == ApproachDateStr(ap)
          dt == IF dt_str.kind = "none" THEN None
                ELSE Some(_parse_iso(dt_str, tnow))
          a1 == [acc EXCEPT
                   !.min_miss = IF @ = None \/ ap.miss[1] < @[1]
                                THEN ap.miss ELSE @,
                   !.max_rel_vel_kms = IF ap.vel[1] > @ THEN ap.vel[1] ELSE @]
      IN  IF dt = None THEN a1
          ELSE IF a1.soonest_dt = None THEN [a1 EXCEPT !.soonest_dt = dt]
          ELSE IF dt[1].tz # a1.soonest_dt[1].tz THEN a1
          ELSE IF dt[1].t < a1.soonest_dt[1].t
               THEN [a1 EXCEPT !.soonest_dt = dt]
               ELSE a1

RECURSIVE MetricsLoop(_, _, _)
MetricsLoop(acc, aps, tnow) ==
    IF aps = <<>> THEN acc
    ELSE MetricsLoop(MetricsStep(acc, Head(aps), tnow), Tail(aps), tnow)

\* compute_metrics(neo), with the two clock readings it makes: t_loop inside
\* _parse_iso during the loop and now after it (t_loop <= now).  Subtracting
\* the aware `now` from a naive soonest_dt raises TypeError out of the
\* function.
compute_metrics(neo, t_loop, now) ==
    LET acc == MetricsLoop([min_miss |-> None, soonest_dt |-> None,
                            max_rel_vel_kms |-> 0],
                           neo.close_approach_data, t_loop)
    IN  IF acc.soonest_dt # None /\ acc.soonest_dt[1].tz = "naive"
        THEN Raise("TypeError")
        ELSE Return(
          [diameter_km |-> neo.estimated_diameter_max,
           is_hazardous |-> neo.is_potentially_hazardous_asteroid,
           min_miss_km |-> acc.min_miss,
           days_to_soonest_approach |->
               IF acc.soonest_dt = None THEN None
               ELSE Some((acc.soonest_dt[1].t - now) \div DaySecs),
           soonest_approach_utc |-> acc.soonest_dt,
           max_rel_vel_kms |-> acc.max_rel_vel_kms,
           absolute_magnitude_h |-> neo.absolute_magnitude_h])

----------------------------------------------------------------------------
(* Inputs of the metrics extractor *)

\* Instants the date strings of the model denote, as offsets from the clock.
DayOffsets == {-2, 10}

DateInstants == {d * DaySecs + 5 : d \in DayOffsets}

\* (close_approach_date_full, close_approach_date) pairs.
ApproachDates ==
    {<<NoStr, NoStr>>, <<BadStr, NoStr>>}
    \cup {<<BadStr, DateStr("naive", t)>> : t \in DateInstants}
    \cup {<<NoStr, DateStr("naive", t)>> : t \in DateInstants}
    \cup {<<DateStr("aware", t), NoStr>> : t \in DateInstants}
    \cup {<<NoStr, DateStr("alt", t)>> : t \in DateInstants}

MissValues == {None, Some(400000), Some(7000000)}

VelValues == {None, Some(12)}

BodyValues == {"Earth", "Mars"}

Approaches ==
    {[miss |-> m, vel |-> v,
      close_approach_date_full |-> d[1], close_approach_date |-> d[2],
      orbiting_body |-> Some("Earth")] :
        m \in MissValues, v \in VelValues, d \in ApproachDates}

ApproachLists == UNION {[1..n -> Approaches] : n \in 0..MaxApproaches}

NeoRecord(id, dmin, dmax, haz, H, aps) ==
    [id |-> id,
     estimated_diameter_min |-> dmin,
     estimated_diameter_max |-> dmax,
     is_potentially_hazardous_asteroid |-> haz,
     absolute_magnitude_h |-> H,
     close_approach_data |-> aps]

MetricsNeos ==
    {NeoRecord(1, None, d, FALSE, None, aps) :
        d \in {None, Some(120)}, aps \in ApproachLists}

----------------------------------------------------------------------------
(* Specification of the metrics extractor *)

\* The part of the state a pure function does not touch.
Quiet ==
    /\ prev = None
    /\ clock = 0
    /\ cache = None
    /\ enrich_cache = None
    /\ world = None
    /\ served = 0
    /\ threads = <<>>

\* compute_metrics is applied to the record drawn by the initial state.
ComputeMetrics ==
    /\ op = "init"
    /\ op' = "compute_metrics"
    /\ ret' = compute_metrics(arg.neo, clock - arg.lag, clock)
    /\ UNCHANGED <<arg, prev, clock, cache, enrich_cache, world, served,
                 threads>>

InitMetrics ==
    /\ op = "init"
    /\ arg \in [neo : MetricsNeos, lag : {0, 1}]
    /\ ret = None
    /\ Quiet

NextMetrics == ComputeMetrics

SpecMetrics == InitMetrics /\ [][NextMetrics]_vars


----------------------------------------------------------------------------
(* classify_threat *)

LargeDiameterM == 300

MediumDiameterM == 50

NearMissKm == 1000000

MidNearMissKm == 5000000

SoonDays == 30

MidTermDays == 365

\* m.get("diameter_km") or 0.0
DiaOrZero(m) == IF Truthy(m.diameter_km) THEN m.diameter_km[1] ELSE 0

\* base, in half points
ThreatBase(dia) ==
    IF dia >= LargeDiameterM THEN 6
    ELSE IF dia >= MediumDiameterM THEN 4
    ELSE 2

\* if near: lvl += 1 / elif mid_near: lvl += 0.5, in half points
MissBonus(miss) ==
    LET near == miss # None /\ miss[1] < NearMissKm
        mid_near == miss # None /\ miss[1] < MidNearMissKm
    IN  IF near THEN 2 ELSE IF mid_near THEN 1 ELSE 0

DayBonusFlipped(days) ==
    LET soon == days # None /\ days[1] >= SoonDays
        mid_term == days # None /\ SoonDays < days[1] /\ days[1] <= MidTermDays
    IN  IF soon THEN 2 ELSE IF mid_term THEN 1 ELSE 0

\* if soon: lvl += 1 / elif mid_term: lvl += 0.5, in half points
DayBonus(days) ==
    LET soon == days # None /\ days[1] <= SoonDays
        mid_term == days # None /\ SoonDays < days[1] /\ days[1] <= MidTermDays
    IN  IF soon THEN 2 ELSE IF mid_term THEN 1 ELSE 0

ThreatTierStrict(lvl) ==
    IF lvl > 8 THEN "CRITICAL"
    ELSE IF lvl > 6 THEN "HIGH"
    ELSE IF lvl > 4 THEN "MODERATE"
    ELSE "LOW"

\* the final comparisons of lvl, in half points
ThreatTier(lvl) ==
    IF lvl >= 8 THEN "CRITICAL"
    ELSE IF lvl >= 6 THEN "HIGH"
    ELSE IF lvl >= 4 THEN "MODERATE"
    ELSE "LOW"

classify_threat(m) ==
    ThreatTier(ThreatBase(DiaOrZero(m)) + MissBonus(m.min_miss_km)
               + DayBonus(m.days_to_soonest_approach))

ThreatLevels == {"LOW", "MODERATE", "HIGH", "CRITICAL"}

\* The order of the tiers: LOW < MODERATE < HIGH < CRITICAL.
Rank(level) ==
    CASE level = "LOW" -> 0
      [] level = "MODERATE" -> 1
      [] level = "HIGH" -> 2
      [] level = "CRITICAL" -> 3

----------------------------------------------------------------------------
(* Inputs of the classifier and of the advisor: metrics summaries *)

\* How far around each threshold of the code the inputs are drawn.
Delta == 1

Around(x) == (x - Delta)..(x + Delta)

GravityTractorDiameterM == 100

NuclearDiameterM == 150

SummaryDiameters ==
    {None, Some(0), Some(20), Some(350)}
    \cup {Some(d) : d \in Around(MediumDiameterM) \cup Around(LargeDiameterM)
                          \cup Around(GravityTractorDiameterM)
                          \cup Around(NuclearDiameterM)}

SummaryMisses ==
    {None, Some(500000), Some(8000000)}
    \cup {Some(d) : d \in Around(NearMissKm) \cup Around(MidNearMissKm)}

SummaryDays ==
    {None, Some(-3), Some(10), Some(400)}
    \cup {Some(d) : d \in Around(SoonDays) \cup Around(MidTermDays)}

Summary(dia, miss, days) ==
    [diameter_km |-> dia, min_miss_km |-> miss,
     days_to_soonest_approach |-> days]

Summaries ==
    {Summary(d, mi, da) :
        d \in SummaryDiameters, mi \in SummaryMisses, da \in SummaryDays}

\* The summaries that differ from m in at most one field.
Variants(m) ==
    {[m EXCEPT !.diameter_km = d] : d \in SummaryDiameters}
    \cup {[m EXCEPT !.min_miss_km = mi] : mi \in SummaryMisses}
    \cup {[m EXCEPT !.days_to_soonest_approach = da] : da \in SummaryDays}

----------------------------------------------------------------------------
(* Specification of the classifier: classify_threat on two summaries *)

ClassifyThreat ==
    /\ op = "init"
    /\ op' = "classify_threat"
    /\ ret' = [level |-> classify_threat(arg.m),
               level2 |-> classify_threat(arg.m2)]
    /\ UNCHANGED <<arg, prev, clock, cache, enrich_cache, world, served,
                 threads>>

InitThreat ==
    /\ op = "init"
    /\ \E m \in Summaries : \E m2 \in Variants(m) : arg = [m |-> m, m2 |-> m2]
    /\ ret = None
    /\ Quiet

NextThreat == ClassifyThreat

SpecThreat == InitThreat /\ [][NextThreat]_vars

----------------------------------------------------------------------------
(* mitigation_suggestions *)

\* A suggestion is its title and its suitable_for list (as a set); the
\* "when", "rationale" and "actions" texts are constants of each title.
Monitoring ==
    [title |-> "Monitoramento reforcado e refinamento orbital",
     suitable_for |-> {"LOW", "MODERATE", "HIGH", "CRITICAL"}]

Coordination ==
    [title |-> "Coordenacao internacional (IAWN/NEO coordination)",
     suitable_for |-> {"MODERATE", "HIGH", "CRITICAL"}]

CivilProtection ==
    [title |-> "Protecao civil e preparacao de emergencia",
     suitable_for |-> {"HIGH", "CRITICAL"}]

KineticImpactor ==
    [title |-> "Deflexao cinetica (Kinetic Impactor)",
     suitable_for |-> {"MODERATE", "HIGH"}]

GravityTractor ==
    [title |-> "Trator gravitacional",
     suitable_for |-> {"MODERATE", "HIGH"}]

StandoffNuclear ==
    [title |-> "Explosao nuclear standoff (ultimo recurso)",
     suitable_for |-> {"HIGH", "CRITICAL"}]

\* An append that is made whatever the condition.
WhenUnconditional(cond, suggestion) == <<suggestion>>

When(cond, suggestion) == IF cond THEN <<suggestion>> ELSE <<>>

BaselineWhenLow(level) == When(level = "LOW", Monitoring)

\* suggestions: List[dict] = [] and the unconditional first append
Baseline(level) == <<Monitoring>>

mitigation_suggestions(m, level) ==
    LET dia == DiaOrZero(m)
        days == m.days_to_soonest_approach
        miss == m.min_miss_km
        short_window == days # None /\ days[1] <= SoonDays
        year_window == days # None /\ days[1] > MidTermDays
    IN  Baseline(level)
        \o When(level \in {"MODERATE", "HIGH", "CRITICAL"}, Coordination)
        \o When(short_window \/ (miss # None /\ miss[1] < NearMissKm),
                CivilProtection)
        \o When(dia >= MediumDiameterM /\ ~short_window, KineticImpactor)
        \o When(dia >= GravityTractorDiameterM /\ year_window, GravityTractor)
        \o When(/\ level \in {"HIGH", "CRITICAL"}
                /\ days # None /\ days[1] <= MidTermDays
                /\ dia >= NuclearDiameterM,
                StandoffNuclear)

----------------------------------------------------------------------------
(* Specification of the advisor: mitigation_suggestions on any summary and
   any level *)

AllNullSummary == Summary(None, None, None)

MitigationSuggestions ==
    /\ op = "init"
    /\ op' = "mitigation_suggestions"
    /\ ret' = mitigation_suggestions(arg.m, arg.level)
    /\ UNCHANGED <<arg, prev, clock, cache, enrich_cache, world, served,
                 threads>>

InitMitigation ==
    /\ op = "init"
    /\ arg \in [m : Summaries, level : ThreatLevels]
    /\ ret = None
    /\ Quiet

NextMitigation == MitigationSuggestions

SpecMitigation == InitMitigation /\ [][NextMitigation]_vars

----------------------------------------------------------------------------
(* The impact engine: estimate_impact_effects and its helpers *)

DefaultRhoMilli == 2500

DefaultVelocityKms == 20

\* The crater-size bound between simple and complex craters, 3.2 km.
ComplexCraterM == 3200

\* str.lower() on the target names of the model.
Lower(str) ==
    CASE str = "WATER" -> "water"
      [] str = "Ice" -> "ice"
      [] OTHER -> str

\* A physical profile as the engine reads it (enr.get(..)); its mass is a
\* mass as carried below.
Profile(d, rho, mass) ==
    [diameter_km |-> d, density_g_cm3 |-> rho, mass_kg |-> mass]

\* _diameter_from_neows: the mean of min and max when both are truthy, else
\* dmax or dmin.
_diameter_from_neows(neo) ==
    LET dmin == neo.estimated_diameter_min
        dmax == neo.estimated_diameter_max
    IN  IF Truthy(dmin) /\ Truthy(dmax) THEN Some((dmin[1] + dmax[1]) \div 2)
        ELSE IF Truthy(dmax) THEN dmax
        ELSE dmin

\* estimate_diameter_from_H with the default albedo 0.14, in metres:
\* 1329 / sqrt(0.14) * 10^(-H/5) km is 141 m at H = 22 and 892 m at H = 18.
estimate_diameter_from_H(H) ==
    IF H = None THEN None
    ELSE IF H[1] = 22 THEN Some(141)
    ELSE Some(892)

\* _resolve_velocity_kms: the override when truthy, else max_rel_vel_kms of
\* compute_metrics when truthy (an exception of compute_metrics is caught),
\* else 20.
_resolve_velocity_kms(neo, velocity_kms, now) ==
    IF Truthy(velocity_kms) THEN velocity_kms[1]
    ELSE LET m == compute_metrics(neo, now, now)
         IN  IF m.ok /\ m.val.max_rel_vel_kms # 0
             THEN m.val.max_rel_vel_kms
             ELSE DefaultVelocityKms

_resolve_diameter_km(neo, enr, override_km) ==
    IF override_km # None THEN override_km
    ELSE IF enr # None /\ Truthy(enr[1].diameter_km) THEN enr[1].diameter_km
    ELSE IF _diameter_from_neows(neo) # None THEN _diameter_from_neows(neo)
    ELSE estimate_diameter_from_H(neo.absolute_magnitude_h)

\* Line 225: the override, else (enr or {}).get("density_g_cm3", default):
\* the default is used only when enr is None.
ResolveDensity(enr, override_g_cm3) ==
    IF override_g_cm3 # None THEN override_g_cm3
    ELSE IF enr = None THEN Some(DefaultRhoMilli)
    ELSE enr[1].density_g_cm3

Sign(n) == IF n > 0 THEN 1 ELSE IF n < 0 THEN -1 ELSE 0

\* A mass is carried as how it was obtained and its sign: a given number of
\* kilograms, or the sphere mass rho * 4/3 pi r^3 of a diameter and density.
GivenMass(kg) == [by |-> "given", kg |-> kg, d |-> 0, rho |-> 0]

SphereMass(d, rho) == [by |-> "sphere", kg |-> 0, d |-> d, rho |-> rho]

MassSign(mass) ==
    IF mass.by = "given" THEN Sign(mass.kg)
    ELSE Sign(mass.d) * Sign(mass.rho)

estimate_mass_from_diameter_density(d_km, rho_g_cm3) ==
    IF ~Truthy(d_km) \/ ~Truthy(rho_g_cm3) THEN None
    ELSE Some(SphereMass(d_km[1], rho_g_cm3[1]))

\* The diameters of the model from this one on stand for those whose radius
\* in metres, cubed, exceeds the largest float (from about 1.1e100 km on).
CubeOverflowM == 1000000000

\* r_m ** 3 at line 646 raises OverflowError on such a diameter, of either
\* sign.
SphereOverflows(d_km, rho_g_cm3) ==
    /\ Truthy(d_km)
    /\ Truthy(rho_g_cm3)
    /\ (d_km[1] >= CubeOverflowM \/ d_km[1] <= -CubeOverflowM)

_resolve_mass_kg(enr, override_mass_kg, d_km, rho_g_cm3) ==
    IF override_mass_kg # None THEN Some(GivenMass(override_mass_kg[1]))
    ELSE IF enr # None /\ enr[1].mass_kg # None THEN enr[1].mass_kg
    ELSE estimate_mass_from_diameter_density(d_km, rho_g_cm3)

\* TARGET_RHO.get((target or "rock").lower(), 2700.0)
TargetRho(target) ==
    CASE Lower(target) = "sedimentary" -> 2200
      [] Lower(target) = "water" -> 1000
      [] Lower(target) = "ice" -> 930
      [] OTHER -> 2700

\* _crater_transient_diameter_m: None when an argument is falsy; a complex
\* number when a base of a fractional power is negative (Python returns a
\* complex, it does not raise); else the value of the pi-scaling product,
\* which the model takes from `scaling`.
_crater_transient_diameter_m(L_m, v_ms, rho_i, rho_t, theta_deg, scaling) ==
    IF ~Truthy(L_m) \/ v_ms = 0 \/ rho_i = 0 \/ rho_t = 0 \/ theta_deg = 0
    THEN None
    ELSE IF L_m[1] < 0 \/ v_ms < 0 \/ rho_i < 0 \/ rho_t < 0
    THEN Some([complex |-> TRUE, m |-> 0])
    ELSE Some([complex |-> FALSE, m |-> scaling])

\* 1.25 * (Dtc_m / 1000.0), carried in metres.
_crater_final_from_transient_km(Dtc_m) ==
    IF Dtc_m = None THEN None
    ELSE Some([Dtc_m[1] EXCEPT !.m = (5 * @) \div 4])

\* A depth is the formula that produced it and, for the simple one, its
\* value 0.20 * Dfr in metres; 0.4 * Dfr^0.3 is carried as its argument.
SimpleDepth(Dfr) == [formula |-> "simple", m |-> Dfr \div 5, of |-> Dfr]

ComplexDepth(Dfr) == [formula |-> "complex", m |-> 0, of |-> Dfr]

CraterDepthInclusive(Dfr_km) ==
    IF Dfr_km = None THEN Return(None)
    ELSE IF Dfr_km[1].complex THEN Raise("TypeError")
    ELSE IF Dfr_km[1].m <= ComplexCraterM
         THEN Return(Some(SimpleDepth(Dfr_km[1].m)))
         ELSE Return(Some(ComplexDepth(Dfr_km[1].m)))

\* _crater_depth_km; comparing a complex number with 3.2 raises TypeError.
_crater_depth_km(Dfr_km) ==
    IF Dfr_km = None THEN Return(None)
    ELSE IF Dfr_km[1].complex THEN Raise("TypeError")
    ELSE IF Dfr_km[1].m < ComplexCraterM
         THEN Return(Some(SimpleDepth(Dfr_km[1].m)))
         ELSE Return(Some(ComplexDepth(Dfr_km[1].m)))

\* Line 241.
CraterType(Dfr_km) ==
    IF Dfr_km = None THEN None
    ELSE IF Dfr_km[1].m < ComplexCraterM THEN Some("simple")
    ELSE Some("complex")

\* _ocean_wavefield_from_crater: None when Dtc_m is falsy or not positive,
\* else the wave field: A0 = 0.10 * Dtc_m (here in decimetres), r0 =
\* 2.0 * (Dtc_m / 2) and one far-field entry per distance.
_ocean_wavefield_from_crater(Dtc_m, n_distances) ==
    IF Dtc_m = None \/ Dtc_m[1].m <= 0 THEN None
    ELSE Some([initial_amp_dm |-> Dtc_m[1].m,
               nearfield_radius_m |-> Dtc_m[1].m,
               far_field |-> n_distances])

OceanWaterOnly(target, water_depth_m, Dtc_m) ==
    IF Lower(target) = "water"
    THEN _ocean_wavefield_from_crater(Dtc_m, 4)
    ELSE None

\* Lines 244-258: the ocean block, with the default four distances.
OceanBlock(target, water_depth_m, Dtc_m) ==
    IF Lower(target) \in {"water", "ice"} \/ water_depth_m # None
    THEN _ocean_wavefield_from_crater(Dtc_m, 4)
    ELSE None

\* _seismic_from_energy by the signs of its arguments: Mw is None when the
\* energy is None or not positive; math.log10 raises ValueError when
\* coupling * energy is not positive.
_seismic_from_energy(E_sign, coupling_sign) ==
    IF E_sign = None \/ E_sign[1] <= 0 THEN Return([Mw |-> None])
    ELSE IF coupling_sign * E_sign[1] <= 0 THEN Raise("ValueError")
    ELSE Return([Mw |-> Some("defined")])

\* estimate_impact_effects.  seismic_coupling is given by its sign; 0 is
\* replaced by the default (seismic_coupling or SEISMIC_COUPLING_DEFAULT).
estimate_impact_effects(neo, enr, velocity_kms, angle_deg, target, override_diameter_km, override_density_g_cm3, override_mass_kg, water_depth_m, seismic_coupling, scaling, now) ==
    LET v_kms == _resolve_velocity_kms(neo, velocity_kms, now)
        d_km == _resolve_diameter_km(neo, enr, override_diameter_km)
        rho_g_cm3 == ResolveDensity(enr, override_density_g_cm3)
        m_kg == _resolve_mass_kg(enr, override_mass_kg, d_km, rho_g_cm3)
        E_j == IF m_kg = None THEN None ELSE Some(MassSign(m_kg[1]))
        rho_i == IF Truthy(rho_g_cm3) THEN rho_g_cm3[1] ELSE DefaultRhoMilli
        Dtc_m == _crater_transient_diameter_m(d_km, v_kms * 1000, rho_i,
                                              TargetRho(target), angle_deg,
                                              scaling)
        Dfr_km == _crater_final_from_transient_km(Dtc_m)
        depth_km == _crater_depth_km(Dfr_km)
        seismic == _seismic_from_energy(
                       E_j, IF seismic_coupling = 0 THEN 1
                            ELSE seismic_coupling)
    IN  IF override_mass_kg = None /\ (enr = None \/ enr[1].mass_kg = None)
           /\ SphereOverflows(d_km, rho_g_cm3)
        THEN Raise("OverflowError")
        ELSE IF ~depth_km.ok THEN depth_km
        ELSE IF ~seismic.ok THEN seismic
        ELSE Return(
          [inputs_resolved |->
               [diameter_km |-> d_km, density_g_cm3 |-> rho_g_cm3,
                mass_kg |-> m_kg, velocity_kms |-> v_kms,
                angle_deg |-> angle_deg, target |-> target],
           energy |-> [kinetic_j |-> E_j],
           crater |->
               [transient_diameter_m |-> Dtc_m,
                final_diameter_m |-> Dfr_km,
                depth |-> depth_km.val,
                type |-> CraterType(Dfr_km)],
           ocean |-> OceanBlock(target, water_depth_m, Dtc_m),
           seismic |-> seismic.val])

----------------------------------------------------------------------------
(* Specification of the impact engine: estimate_impact_effects on the
   inputs the initial state draws *)

OneApproach ==
    <<[miss |-> Some(400000), vel |-> Some(12),
       close_approach_date_full |-> NoStr, close_approach_date |-> NoStr,
       orbiting_body |-> Some("Earth")]>>

ImpactNeos ==
    {NeoRecord(1, d[1], d[2], FALSE, d[3], aps) :
        d \in {<<None, None, None>>, <<Some(300), Some(400), None>>,
               <<None, None, Some(22)>>},
        aps \in {<<>>, OneApproach}}

ImpactProfiles ==
    {None, Some(Profile(None, None, None)),
     Some(Profile(Some(350), Some(3000), Some(GivenMass(7))))}

\* Values of the pi-scaling product, in metres: final diameters of 3195,
\* 3200 and 3205 m.
ScalingValues == {2556, 2560, 2564}

ImpactInputs ==
    [neo : ImpactNeos,
     enr : ImpactProfiles,
     velocity_kms : {None, Some(0), Some(17), Some(-17)},
     angle_deg : {45},
     target : {"rock", "water", "Ice", "mud"},
     override_diameter_km : {None, Some(340), Some(0), Some(-1)},
     override_density_g_cm3 : {None, Some(3000)},
     override_mass_kg : {None, Some(0), Some(5)},
     water_depth_m : {None, Some(0), Some(3000)},
     seismic_coupling : {-1, 0, 1},
     scaling : ScalingValues]

EstimateImpactEffects ==
    /\ op = "init"
    /\ op' = "estimate_impact_effects"
    /\ ret' = estimate_impact_effects(
                  arg.neo, arg.enr, arg.velocity_kms, arg.angle_deg,
                  arg.target, arg.override_diameter_km,
                  arg.override_density_g_cm3, arg.override_mass_kg,
                  arg.water_depth_m, arg.seismic_coupling, arg.scaling,
                  clock)
    /\ UNCHANGED <<arg, prev, clock, cache, enrich_cache, world, served,
                 threads>>

InitImpact ==
    /\ op = "init"
    /\ arg \in ImpactInputs
    /\ ret = None
    /\ Quiet

NextImpact == EstimateImpactEffects

SpecImpact == InitImpact /\ [][NextImpact]_vars

----------------------------------------------------------------------------
(* The physical-parameter resolver: enrich_by_label and its cache *)

ENRICH_TTL == 30

\* TAXO_RHO on the classes of the model, in thousandths of g/cm^3; None for
\* a key that is not in the table.
TAXO_RHO(key) ==
    CASE key = "C" -> Some(1300)
      [] key = "S" -> Some(2700)
      [] key = "M" -> Some(5300)
      [] OTHER -> None

\* str.upper() on the taxonomy classes of the model.
Upper(str) ==
    CASE str = "s" -> "S"
      [] str = "c" -> "C"
      [] OTHER -> str

\* What catalog A (SsODNet) yields for a label, after ssod_quaero, ssod_card
\* and extract_phys_from_ssocard: outcome "card" with the extracted values
\* (mass is the mass field or GM / G), or a failure, which those functions
\* turn into None and {}.
SsodResponse(outcome, d, mass, rho, taxo, bib) ==
    [outcome |-> outcome, diameter_km |-> d, mass_kg |-> mass,
     density_g_cm3 |-> rho, taxonomy |-> taxo, bibcode |-> bib]

SsodFailures == {"no_match", "http_error", "exception", "not_a_dict"}

\* What catalog B (SBDB) yields, after sbdb_phys and extract_phys_from_sbdb:
\* outcome "phys" with the extracted values, or a failure, which those
\* functions turn into None and {}.
SbdbResponse(outcome, d, mass, rho) ==
    [outcome |-> outcome, diameter_km |-> d, mass_kg |-> mass,
     density_g_cm3 |-> rho]

SbdbFailures == {"http_error", "exception", "not_a_dict"}

\* dict.get on the extracted dict: None for every key of {}.
Got(resp, ok, key) == IF resp.outcome = ok THEN resp[key] ELSE None

EmptyProfile ==
    [source |-> None, mass_kg |-> None, density_g_cm3 |-> None,
     diameter_km |-> None, taxonomy |-> None, bibcode |-> None,
     note |-> None]

AnyTruthy(r) ==
    Truthy(r.mass_kg) \/ Truthy(r.density_g_cm3) \/ Truthy(r.diameter_km)

\* Stage 1, lines 749-758: the card's values are taken, and the source set,
\* only when one of its mass, density and diameter is truthy.
MergeSsod(result, ssod) ==
    IF ssod.outcome = "card" /\ AnyTruthy(ssod)
    THEN [result EXCEPT
            !.mass_kg = ssod.mass_kg,
            !.density_g_cm3 = ssod.density_g_cm3,
            !.diameter_km = ssod.diameter_km,
            !.taxonomy = ssod.taxonomy,
            !.bibcode = ssod.bibcode,
            !.source = Some("ssodnet")]
    ELSE result

\* Stage 2, lines 761-770: SBDB is asked only when a field is still None and
\* fills only None fields; the source becomes sbdb when none is set and a
\* field is truthy.
MergeSbdb(result, sbdb) ==
    IF result.mass_kg = None \/ result.density_g_cm3 = None
       \/ result.diameter_km = None
    THEN LET Fill(k) == IF result[k] = None THEN Got(sbdb, "phys", k)
                        ELSE result[k]
             filled == [result EXCEPT
                          !.mass_kg = Fill("mass_kg"),
                          !.density_g_cm3 = Fill("density_g_cm3"),
                          !.diameter_km = Fill("diameter_km")]
         IN  IF AnyTruthy(filled) /\ result.source = None
             THEN [filled EXCEPT !.source = Some("sbdb")]
             ELSE filled
    ELSE result

\* Stages 3a and 3b, lines 774-786: the diameter from the context record,
\* else from H (of the context, if any).
FillDiameter(result, neo_context) ==
    LET d_ctx == IF neo_context = None THEN None
                 ELSE _diameter_from_neows(neo_context[1])
        d_est == IF neo_context = None THEN None
                 ELSE estimate_diameter_from_H(
                          neo_context[1].absolute_magnitude_h)
    IN  IF result.diameter_km # None THEN <<result, <<>>>>
        ELSE IF d_ctx # None
        THEN <<[result EXCEPT !.diameter_km = d_ctx],
               <<"diameter from NeoWS (avg min/max)">>>>
        ELSE IF d_est # None
        THEN <<[result EXCEPT !.diameter_km = d_est],
               <<"diameter estimated from H">>>>
        ELSE <<result, <<>>>>

\* Stage 3c, lines 789-797.
FillDensity(result) ==
    LET taxo_key == IF result.taxonomy = None THEN ""
                    ELSE Upper(result.taxonomy[1])
        rho == IF taxo_key = "" THEN None ELSE TAXO_RHO(taxo_key)
    IN  IF result.density_g_cm3 # None THEN <<result, <<>>>>
        ELSE IF rho # None
        THEN <<[result EXCEPT !.density_g_cm3 = rho],
               <<"density from taxonomy">>>>
        ELSE <<[result EXCEPT !.density_g_cm3 = Some(DefaultRhoMilli)],
               <<"density default">>>>

\* Stage 3d, lines 800-804; a catalog's mass becomes a given mass.
FillMass(result) ==
    IF result.mass_kg # None
    THEN <<[result EXCEPT !.mass_kg = Some(GivenMass(@[1]))], <<>>>>
    ELSE IF Truthy(result.diameter_km) /\ Truthy(result.density_g_cm3)
    THEN <<[result EXCEPT !.mass_kg =
                estimate_mass_from_diameter_density(result.diameter_km,
                                                    result.density_g_cm3)],
           <<"mass estimated from diameter & density">>>>
    ELSE <<result, <<>>>>

\* Lines 744-812: the profile enrich_by_label computes on a cache miss, or
\* the exception that leaves stage 3d, which no try block encloses.
ResolveProfile(neo_context, ssod, sbdb) ==
    LET r2 == MergeSbdb(MergeSsod(EmptyProfile, ssod), sbdb)
        s3 == FillDiameter(r2, neo_context)
        s4 == FillDensity(s3[1])
        s5 == FillMass(s4[1])
        notes == s3[2] \o s4[2] \o s5[2]
    IN  IF s4[1].mass_kg = None
           /\ SphereOverflows(s4[1].diameter_km, s4[1].density_g_cm3)
        THEN Raise("OverflowError")
        ELSE [s5[1] EXCEPT
                !.source = IF @ = None THEN Some("estimate") ELSE @,
                !.note = IF notes = <<>> THEN None ELSE Some(notes)]

\* _enrich_cache_get: the data of an entry that has not expired; an expired
\* entry is popped.  <<data or None, the cache afterwards>>
_enrich_cache_get(c, key, now) ==
    IF c[key] = None THEN <<None, c>>
    ELSE IF now > c[key][1].exp THEN <<None, [c EXCEPT ![key] = None]>>
    ELSE <<Some(c[key][1].data), c>>

_enrich_cache_set(c, key, data, now) ==
    [c EXCEPT ![key] = Some([exp |-> now + ENRICH_TTL, data |-> data])]

\* An exception among the values a function of the model yields.
Raised(x) == "err" \in DOMAIN x

\* enrich_by_label(label, neo_context), the providers answering as `world`
\* says: the cached profile, or the resolved one, which is cached; an
\* exception stores nothing.
\* <<the profile returned or the exception, the cache afterwards>>
enrich_by_label(c, label, neo_context, now) ==
    LET got == _enrich_cache_get(c, label, now)
        result == ResolveProfile(neo_context, world.ssodnet[label],
                                 world.sbdb[label])
    IN  IF got[1] # None THEN <<got[1][1], got[2]>>
        ELSE IF Raised(result) THEN <<result, got[2]>>
        ELSE <<result, _enrich_cache_set(got[2], label, result, now)>>

----------------------------------------------------------------------------
(* Inputs of the resolver *)

Labels == {"Apophis"}

EmptyEnrichCache == [l \in Labels |-> None]

\* The context records: one with an estimated-diameter range, one with only
\* an absolute magnitude.
ContextWithRange == NeoRecord(1, Some(300), Some(400), FALSE, None, <<>>)

ContextWithH == NeoRecord(1, None, None, FALSE, Some(22), <<>>)

Contexts == {None, Some(ContextWithRange), Some(ContextWithH)}

SsodResponses ==
    {SsodResponse(o, None, None, None, None, None) : o \in SsodFailures}
    \cup {SsodResponse("card", d, m, rho, t, None) :
            d \in {None, Some(0), Some(500)},
            m \in {None, Some(9)},
            rho \in {None, Some(0), Some(2900)},
            t \in {None, Some("s"), Some("Xz")}}

SbdbResponses ==
    {SbdbResponse(o, None, None, None) : o \in SbdbFailures}
    \cup {SbdbResponse("phys", d, m, rho) :
            d \in {None, Some(600)},
            m \in {None, Some(8)},
            rho \in {None, Some(1900)}}

Worlds ==
    {[ssodnet |-> [l \in Labels |-> a], sbdb |-> [l \in Labels |-> b]] :
        a \in SsodResponses, b \in SbdbResponses}

----------------------------------------------------------------------------
(* Specification of the resolver on an empty cache: one call of
   enrich_by_label on the inputs the initial state draws *)

EnrichCall(label, neo_context) ==
    LET out == enrich_by_label(enrich_cache, label, neo_context, clock)
    IN  /\ op' = "enrich_by_label"
        /\ arg' = [label |-> label, neo_context |-> neo_context]
        /\ ret' = out[1]
        /\ enrich_cache' = out[2]
        /\ prev' = IF op = "init" THEN None
                   ELSE Some([op |-> op, arg |-> arg, ret |-> ret])
        /\ UNCHANGED <<clock, cache, world, served,
                 threads>>

ResolveOnce ==
    /\ op = "init"
    /\ EnrichCall(arg.label, arg.neo_context)

InitResolve ==
    /\ op = "init"
    /\ arg \in [label : Labels, neo_context : Contexts]
    /\ ret = None
    /\ prev = None
    /\ clock = 0
    /\ cache = None
    /\ enrich_cache = EmptyEnrichCache
    /\ world \in Worlds
    /\ served = 0
    /\ threads = <<>>

NextResolve == ResolveOnce

SpecResolve == InitResolve /\ [][NextResolve]_vars

----------------------------------------------------------------------------
(* Specification of the resolver against every provider outcome: one call of
   enrich_by_label on an empty cache, each provider failing in each of its
   ways or answering partial data, diameters of any size included *)

ProviderSsodResponses ==
    {SsodResponse(o, None, None, None, None, None) : o \in SsodFailures}
    \cup {SsodResponse("card", d, m, rho, None, None) :
            d \in {None, Some(500), Some(CubeOverflowM)},
            m \in {None, Some(9)},
            rho \in {None, Some(2900)}}

ProviderSbdbResponses ==
    {SbdbResponse(o, None, None, None) : o \in SbdbFailures}
    \cup {SbdbResponse("phys", d, None, rho) :
            d \in {None, Some(600), Some(CubeOverflowM)},
            rho \in {None, Some(1900)}}

ProviderWorlds ==
    {[ssodnet |-> [l \in Labels |-> a], sbdb |-> [l \in Labels |-> b]] :
        a \in ProviderSsodResponses, b \in ProviderSbdbResponses}

InitProviders ==
    /\ op = "init"
    /\ arg \in [label : Labels, neo_context : Contexts]
    /\ ret = None
    /\ prev = None
    /\ clock = 0
    /\ cache = None
    /\ enrich_cache = EmptyEnrichCache
    /\ world \in ProviderWorlds
    /\ served = 0
    /\ threads = <<>>

NextProviders == ResolveOnce

SpecProviders == InitProviders /\ [][NextProviders]_vars

----------------------------------------------------------------------------
(* Specification of the resolver with its cache: calls of enrich_by_label,
   with and without a context, as time passes *)

\* How many times the clock is advanced.
MaxTicks == 2

\* Time passes: to the last second an entry stored now is kept, or to the
\* first second it is not.
TickEnrich ==
    /\ clock \div ENRICH_TTL < MaxTicks
    /\ \E step \in {ENRICH_TTL, ENRICH_TTL + 1} : clock' = clock + step
    /\ UNCHANGED <<op, arg, ret, prev, cache, enrich_cache, world, served,
                 threads>>

EnrichByLabel ==
    \E label \in Labels, neo_context \in Contexts :
        EnrichCall(label, neo_context)

\* The answers of the providers in this specification: catalog A has no
\* diameter, or fails; catalog B has a density or fails.
CacheWorlds ==
    {w \in Worlds :
        \A l \in Labels :
            /\ w.ssodnet[l].diameter_km = None
            /\ w.ssodnet[l].taxonomy = None
            /\ w.ssodnet[l].outcome \in {"card", "no_match"}
            /\ w.sbdb[l].outcome \in {"phys", "http_error"}
            /\ w.sbdb[l].diameter_km = None
            /\ w.sbdb[l].mass_kg = None}

InitEnrich ==
    /\ op = "init"
    /\ arg = None
    /\ ret = None
    /\ prev = None
    /\ clock = 0
    /\ cache = None
    /\ enrich_cache = EmptyEnrichCache
    /\ world \in CacheWorlds
    /\ served = 0
    /\ threads = <<>>

NextEnrich == EnrichByLabel \/ TickEnrich

SpecEnrich == InitEnrich /\ [][NextEnrich]_vars

----------------------------------------------------------------------------
(* The filter predicate: _any_approach_in_window and _passes_filters *)

\* datetime.date(): the day number of an instant.
DateOf(dt) == dt.t \div DaySecs

\* str.lower() on the body names of the model.
LowerBody(str) ==
    CASE str = "Earth" -> "earth"
      [] str = "Mars" -> "mars"
      [] OTHER -> str

\* The loop body of _any_approach_in_window: TRUE when the entry is not
\* skipped.  An entry without a date string has d = None and passes both
\* date tests; orbiting_body is "" when the key is missing.
ApproachInWindow(ap, df, dt, bnorm, tnow) ==
    LET dstr == ApproachDateStr(ap)
        d == IF dstr.kind = "none" THEN None
             ELSE Some(DateOf(_parse_iso(dstr, tnow)))
        orbiting == IF ap.orbiting_body = None THEN ""
                    ELSE ap.orbiting_body[1]
    IN  /\ ~(df # None /\ d # None /\ d[1] < df[1])
        /\ ~(dt # None /\ d # None /\ d[1] > dt[1])
        /\ ~(bnorm # None /\ LowerBody(orbiting) # bnorm[1])

_any_approach_in_window(neo, date_from, date_to, body, tnow) ==
    IF date_from = None /\ date_to = None /\ body = None THEN TRUE
    ELSE
      LET df == IF date_from = None THEN None
                ELSE Some(DateOf(_parse_iso(date_from[1], tnow)))
          dt == IF date_to = None THEN None
                ELSE Some(DateOf(_parse_iso(date_to[1], tnow)))
          bnorm == IF body = None THEN None ELSE Some(LowerBody(body[1]))
      IN  \E i \in DOMAIN neo.close_approach_data :
              ApproachInWindow(neo.close_approach_data[i], df, dt, bnorm, tnow)

\* A bound on an optional value: None when no bound is supplied.
BelowMin(bound, value) ==
    bound # None /\ (value = None \/ value[1] < bound[1])

AboveMax(bound, value) ==
    bound # None /\ (value = None \/ value[1] > bound[1])

\* _passes_filters(neo, ...) with the filters as a record f; an exception of
\* compute_metrics leaves the function.
_passes_filters(neo, f, now) ==
    LET mr == compute_metrics(neo, now, now)
        m == mr.val
    IN  IF ~mr.ok THEN mr
        ELSE Return(
          /\ ~(f.hazardous # None /\ m.is_hazardous # f.hazardous[1])
          /\ ~BelowMin(f.min_diameter_km, m.diameter_km)
          /\ ~AboveMax(f.max_diameter_km, m.diameter_km)
          /\ ~BelowMin(f.min_miss_km, m.min_miss_km)
          /\ ~AboveMax(f.max_miss_km, m.min_miss_km)
          /\ ~BelowMin(f.min_rel_vel_kms, Some(m.max_rel_vel_kms))
          /\ ~AboveMax(f.max_rel_vel_kms, Some(m.max_rel_vel_kms))
          /\ ~BelowMin(f.days_min, m.days_to_soonest_approach)
          /\ ~AboveMax(f.days_max, m.days_to_soonest_approach)
          /\ ~BelowMin(f.mag_h_min, m.absolute_magnitude_h)
          /\ ~AboveMax(f.mag_h_max, m.absolute_magnitude_h)
          /\ _any_approach_in_window(neo, f.date_from, f.date_to,
                                     f.approach_body, now))

----------------------------------------------------------------------------
(* Specification of the filter predicate: _passes_filters on the record and
   the filters the initial state draws *)

\* The most bounds a filter set of the model supplies.
MaxBounds == 2

FilterKinds ==
    {"hazardous", "min_diameter_km", "max_diameter_km", "min_miss_km",
     "max_miss_km", "min_rel_vel_kms", "max_rel_vel_kms", "days_min",
     "days_max", "mag_h_min", "mag_h_max", "approach_body", "date_from",
     "date_to"}

\* The value the model supplies for each kind of bound.
FilterValue(kind) ==
    CASE kind = "hazardous" -> TRUE
      [] kind = "min_diameter_km" -> 100
      [] kind = "max_diameter_km" -> 200
      [] kind = "min_miss_km" -> 300000
      [] kind = "max_miss_km" -> 500000
      [] kind = "min_rel_vel_kms" -> 5
      [] kind = "max_rel_vel_kms" -> 20
      [] kind = "days_min" -> 5
      [] kind = "days_max" -> 20
      [] kind = "mag_h_min" -> 20
      [] kind = "mag_h_max" -> 25
      [] kind = "approach_body" -> "earth"
      [] kind = "date_from" -> DateStr("naive", 5 * DaySecs)
      [] kind = "date_to" -> DateStr("naive", 20 * DaySecs)

FilterSets ==
    {[k \in FilterKinds |-> IF k \in S THEN Some(FilterValue(k)) ELSE None] :
        S \in {T \in SUBSET FilterKinds : Cardinality(T) <= MaxBounds}}

NoFilters == [k \in FilterKinds |-> None]

FilterApproaches ==
    {[miss |-> m, vel |-> v,
      close_approach_date_full |-> d[1], close_approach_date |-> d[2],
      orbiting_body |-> b] :
        m \in {None, Some(400000)}, v \in {None, Some(12)},
        d \in {<<NoStr, NoStr>>, <<BadStr, NoStr>>,
               <<NoStr, DateStr("naive", 10 * DaySecs + 5)>>,
               <<DateStr("aware", 10 * DaySecs + 5), NoStr>>},
        b \in {None, Some("Earth")}}

FilterNeos ==
    {NeoRecord(1, None, d, haz, H, aps) :
        d \in {None, Some(120)}, haz \in BOOLEAN, H \in {None, Some(22)},
        aps \in {<<>>} \cup {<<ap>> : ap \in FilterApproaches}}

PassesFilters ==
    /\ op = "init"
    /\ op' = "_passes_filters"
    /\ ret' = _passes_filters(arg.neo, arg.filters, clock)
    /\ UNCHANGED <<arg, prev, clock, cache, enrich_cache, world, served,
                 threads>>

InitFilter ==
    /\ op = "init"
    /\ arg \in [neo : FilterNeos, filters : FilterSets]
    /\ ret = None
    /\ Quiet

NextFilter == PassesFilters

SpecFilter == InitFilter /\ [][NextFilter]_vars

----------------------------------------------------------------------------
(* The fetch cache and the primary fetch: _cache_get, _cache_set, _get *)

CACHE_TTL == 300

\* A dict is the sequence of its (name, value) items in insertion order, the
\* names distinct.  sorted(params.items()) orders the items by name, so the
\* sorted tuple is the same for two dicts exactly when their items are the
\* same set.
SortedItems(params) == {params[i] : i \in DOMAIN params}

\* (url, tuple(sorted(params.items()))).
CacheKey(url, params) == [url |-> url, params |-> SortedItems(params)]

\* _cache_get with the expiry test made with >= (an entry is then dropped at
\* the very second it expires).
CacheGetExclusive(c, key, now) ==
    IF c[key] = None THEN <<None, c>>
    ELSE IF now >= c[key][1].exp THEN <<None, [c EXCEPT ![key] = None]>>
    ELSE <<Some(c[key][1].data), c>>

\* _cache_get(key): the data and the cache afterwards (an expired entry is
\* popped).
_cache_get(c, key, now) ==
    IF c[key] = None THEN <<None, c>>
    ELSE IF now > c[key][1].exp THEN <<None, [c EXCEPT ![key] = None]>>
    ELSE <<Some(c[key][1].data), c>>

_cache_set(c, key, data, now) ==
    [c EXCEPT ![key] = Some([exp |-> now + CACHE_TTL, data |-> data])]

HTTPException(status_code) ==
    [ok |-> FALSE, err |-> "HTTPException", status_code |-> status_code]

\* _get(url, params), the upstream answering r = [status_code, json] when it
\* is contacted: the outcome, the cache afterwards, and whether requests.get
\* was called.  The bodies the upstream answers are JSON objects.
_get(c, url, params, now, r) ==
    LET cache_key == CacheKey(url, params)
        cached == _cache_get(c, cache_key, now)
    IN  IF cached[1] # None
        THEN [out |-> Return(cached[1][1]), cache |-> cached[2],
              contacted |-> FALSE]
        ELSE IF r.status_code # 200
        THEN [out |-> HTTPException(r.status_code), cache |-> cached[2],
              contacted |-> TRUE]
        ELSE [out |-> Return(r.json),
              cache |-> _cache_set(cached[2], cache_key, r.json, now),
              contacted |-> TRUE]

----------------------------------------------------------------------------
(* The routes: build_assessment and the handlers neo_feed, neo_detail,
   neo_browse, neo_filter, neo_hazardous, neo_enrich.  A handler changes the
   records it got from _get in place, and those are the objects the cache
   holds: the cache entry changes with them. *)

\* An assessment whose threat_level is not the level the suggestions were
\* selected for.
AssessmentLevelDropped(metrics, level) ==
    [metrics |-> metrics,
     threat_level |-> "LOW",
     mitigations |-> mitigation_suggestions(metrics, level)]

\* The dict build_assessment returns for the metrics and their level.
Assessment(metrics, level) ==
    [metrics |-> metrics,
     threat_level |-> level,
     mitigations |-> mitigation_suggestions(metrics, level)]

\* build_assessment after compute_metrics has answered mr.
AssessmentOf(mr) ==
    IF ~mr.ok THEN mr
    ELSE Return(Assessment(mr.val, classify_threat(mr.val)))

build_assessment(neo, now) == AssessmentOf(compute_metrics(neo, now, now))

\* What the framework answers: the handler's value with status 200, the
\* status of an HTTPException, 500 for any other exception.
Ok(body) == [status_code |-> 200, body |-> body]

JSONResponse(status_code, content) ==
    [status_code |-> status_code, body |-> content]

AsResponse(outcome) ==
    IF outcome.ok THEN Ok(outcome.val)
    ELSE IF outcome.err = "HTTPException"
    THEN JSONResponse(outcome.status_code, "detail")
    ELSE JSONResponse(500, "Internal Server Error")

\* neo.get("name") or neo.get("designation") or str(id): the records of the
\* model carry a name.
LabelOf(neo) == neo.name

\* The cache with the data of an entry replaced by the changed object.
Aliased(c, key, data) ==
    [c EXCEPT ![key] = Some([exp |-> c[key][1].exp, data |-> data])]

\* neo["enrichment"] = e, e = <<profile, enrichment cache afterwards>> being
\* what enrich_by_label answered; its exception leaves the loop, the record
\* keeping what was assigned before.  st = [recs, ec, err].
SetEnrichment(st, i, neo, e) ==
    IF Raised(e[1])
    THEN [recs |-> [st.recs EXCEPT ![i] = neo], ec |-> e[2],
          err |-> Some(e[1])]
    ELSE [recs |-> [st.recs EXCEPT
                      ![i] = [neo EXCEPT !.enrichment = Some(e[1])]],
          ec |-> e[2],
          err |-> None]

\* `if enrich: neo["enrichment"] = enrich_by_label(label)` on record i, neo
\* being the record as it is by then.
EnrichRecord(st, i, neo, enrich, now) ==
    IF enrich
    THEN SetEnrichment(st, i, neo,
                       enrich_by_label(st.ec, LabelOf(neo), None, now))
    ELSE [recs |-> [st.recs EXCEPT ![i] = neo], ec |-> st.ec, err |-> None]

\* `if mitigations: neo["assessment"] = a`, a being what build_assessment
\* answered, then the enrichment; an exception of build_assessment leaves
\* the loop.
AssessRecord(st, i, a, mitigations, enrich, now) ==
    IF mitigations /\ ~a.ok THEN [st EXCEPT !.err = Some(a)]
    ELSE EnrichRecord(st, i,
                      IF mitigations
                      THEN [st.recs[i] EXCEPT !.assessment = Some(a.val)]
                      ELSE st.recs[i],
                      enrich, now)

\* The two assignments the list handlers make on record i of st.recs.
Decorate(st, i, mitigations, enrich, now) ==
    AssessRecord(st, i, build_assessment(st.recs[i], now), mitigations,
                 enrich, now)

\* The loop over the records from index i on; it ends at the first exception.
RECURSIVE DecorateFrom(_, _, _, _, _)
DecorateFrom(st, i, mitigations, enrich, now) ==
    IF st.err # None \/ i > Len(st.recs) THEN st
    ELSE DecorateFrom(Decorate(st, i, mitigations, enrich, now), i + 1,
                      mitigations, enrich, now)

WithRecords(data, recs) == [data EXCEPT !.near_earth_objects = recs]

Records(data) == data.near_earth_objects

\* The end of neo_feed and neo_browse after the loop: the data is returned,
\* unless an exception left the loop.
ListDecorated(c, key, data, st) ==
    [resp |-> IF st.err # None THEN AsResponse(st.err[1])
              ELSE Ok(WithRecords(data, st.recs)),
     cache |-> Aliased(c, key, WithRecords(data, st.recs)),
     ec |-> st.ec]

\* neo_feed and neo_browse after _get has answered g.
ListFetched(g, ec, key, decorate, mitigations, enrich, now) ==
    IF ~g.out.ok
    THEN [resp |-> AsResponse(g.out), cache |-> g.cache, ec |-> ec]
    ELSE IF ~decorate
    THEN [resp |-> Ok(g.out.val), cache |-> g.cache, ec |-> ec]
    ELSE ListDecorated(g.cache, key, g.out.val,
                       DecorateFrom([recs |-> Records(g.out.val),
                                     ec |-> ec, err |-> None],
                                    1, mitigations, enrich, now))

\* The endpoints under NASA_API, as path segments.
FeedUrl == <<"feed">>

BrowseUrl == <<"neo", "browse">>

DetailUrl(neo_id) == <<"neo", neo_id>>

ApiKey == <<"api_key", "DEMO_KEY">>

FeedParams(start_date) == <<ApiKey, <<"start_date", start_date>>>>

BrowseParams(page, size) == <<ApiKey, <<"page", page>>, <<"size", size>>>>

\* neo_feed without end_date; the days of the body are one list here.
neo_feed(c, ec, start_date, mitigations, now, r) ==
    ListFetched(_get(c, FeedUrl, FeedParams(start_date), now, r), ec,
                CacheKey(FeedUrl, FeedParams(start_date)),
                mitigations, mitigations, FALSE, now)

neo_browse(c, ec, page, size, mitigations, enrich, now, r) ==
    ListFetched(_get(c, BrowseUrl, BrowseParams(page, size), now, r), ec,
                CacheKey(BrowseUrl, BrowseParams(page, size)),
                mitigations \/ enrich, mitigations, enrich, now)

\* neo["enrichment"] = enr, or neo["enrichment_error"] = str(e) when
\* enrich_by_label raised.
WithEnrichment(neo, enr) ==
    IF Raised(enr) THEN [neo EXCEPT !.enrichment_error = Some(enr.err)]
    ELSE [neo EXCEPT !.enrichment = Some(enr)]

\* The end of neo_detail: the enrichment is recorded, neo is returned.
DetailEnriched(c, key, neo, e) ==
    [resp |-> Ok(WithEnrichment(neo, e[1])),
     cache |-> Aliased(c, key, WithEnrichment(neo, e[1])),
     ec |-> e[2]]

\* neo_detail from `if enrich:` on, neo being the record as it is by then.
DetailAssessed(c, ec, key, neo, enrich, now) ==
    IF enrich
    THEN DetailEnriched(c, key, neo,
                        enrich_by_label(ec, LabelOf(neo), Some(neo), now))
    ELSE [resp |-> Ok(neo), cache |-> Aliased(c, key, neo), ec |-> ec]

\* neo_detail after _get has answered g, a being what build_assessment
\* answers for the record.
DetailFetched(g, a, ec, key, mitigations, enrich, now) ==
    IF ~g.out.ok
    THEN [resp |-> AsResponse(g.out), cache |-> g.cache, ec |-> ec]
    ELSE IF mitigations /\ ~a.ok
    THEN [resp |-> AsResponse(a), cache |-> g.cache, ec |-> ec]
    ELSE DetailAssessed(g.cache, ec, key,
                        IF mitigations
                        THEN [g.out.val EXCEPT !.assessment = Some(a.val)]
                        ELSE g.out.val,
                        enrich, now)

\* The record _get answered, for the calls made on it.
Fetched(g) == g.out.val

\* neo_detail with impact = False.
neo_detail(c, ec, neo_id, mitigations, enrich, now, r) ==
    DetailFetched(_get(c, DetailUrl(neo_id), <<ApiKey>>, now, r),
                  build_assessment(
                      Fetched(_get(c, DetailUrl(neo_id), <<ApiKey>>, now, r)),
                      now),
                  ec, CacheKey(DetailUrl(neo_id), <<ApiKey>>),
                  mitigations, enrich, now)

\* The end of neo_enrich, e being what enrich_by_label answered.
EnrichAnswer(neo_id, neo, c, e) ==
    [resp |-> IF Raised(e[1]) THEN JSONResponse(502, "enrichment_failed")
              ELSE Ok([neo_id |-> neo_id, label |-> LabelOf(neo),
                       enrichment |-> e[1]]),
     cache |-> c,
     ec |-> e[2]]

\* neo_enrich after _get has answered g: every exception of the body, the
\* HTTPException of _get included, is answered with status 502.
EnrichFetched(g, ec, neo_id, now) ==
    IF ~g.out.ok
    THEN [resp |-> JSONResponse(502, "enrichment_failed"),
          cache |-> g.cache, ec |-> ec]
    ELSE EnrichAnswer(neo_id, g.out.val, g.cache,
                      enrich_by_label(ec, LabelOf(g.out.val),
                                      Some(g.out.val), now))

neo_enrich(c, ec, neo_id, now, r) ==
    EnrichFetched(_get(c, DetailUrl(neo_id), <<ApiKey>>, now, r), ec, neo_id,
                  now)

\* The tests neo_hazardous makes on one record once compute_metrics has
\* answered mr, q being the query parameters; an exception skips the record.
HazardousTests(neo, mr, q, now) ==
    /\ mr.ok
    /\ neo.is_potentially_hazardous_asteroid
    /\ ~(mr.val.diameter_km = None
         \/ mr.val.diameter_km[1] < q.min_diameter_km)
    /\ ~(q.max_diameter_km # None
         /\ mr.val.diameter_km[1] > q.max_diameter_km[1])
    /\ mr.val.min_miss_km # None
    /\ mr.val.min_miss_km[1] <= q.max_miss_distance_km
    /\ ~(q.min_miss_distance_km # None
         /\ mr.val.min_miss_km[1] < q.min_miss_distance_km[1])
    /\ ~BelowMin(q.min_rel_vel_kms, Some(mr.val.max_rel_vel_kms))
    /\ ~AboveMax(q.max_rel_vel_kms, Some(mr.val.max_rel_vel_kms))
    /\ ~AboveMax(q.days_max, mr.val.days_to_soonest_approach)
    /\ ~(q.approach_body # None /\ q.approach_body[1] # ""
         /\ ~_any_approach_in_window(neo, None, None, q.approach_body, now))

HazardousKeeps(neo, q, now) ==
    HazardousTests(neo, compute_metrics(neo, now, now), q, now)

\* filtered.append(neo) after the two assignments gave `one`; an exception
\* in them skips the record.
HazardousKept(st, i, one) ==
    IF one.err # None THEN [st EXCEPT !.recs = one.recs, !.ec = one.ec]
    ELSE [recs |-> one.recs, ec |-> one.ec,
          filtered |-> Append(st.filtered, one.recs[i])]

\* One round of the loop of neo_hazardous.  st = [recs, ec, filtered].
HazardousStep(st, i, q, now) ==
    IF ~HazardousKeeps(st.recs[i], q, now) THEN st
    ELSE HazardousKept(st, i,
                       Decorate([recs |-> st.recs, ec |-> st.ec,
                                 err |-> None],
                                i, q.mitigations, q.enrich, now))

RECURSIVE HazardousFrom(_, _, _, _)
HazardousFrom(st, i, q, now) ==
    IF i > Len(st.recs) THEN st
    ELSE HazardousFrom(HazardousStep(st, i, q, now), i + 1, q, now)

ListBody(records) == [count |-> Len(records), near_earth_objects |-> records]

\* The end of neo_hazardous after the loop.
HazardousAnswer(c, key, data, st) ==
    [resp |-> Ok(ListBody(st.filtered)),
     cache |-> Aliased(c, key, WithRecords(data, st.recs)),
     ec |-> st.ec]

\* neo_hazardous after neo_browse has answered raw.
HazardousBrowsed(raw, ec, q, now) ==
    IF raw.resp.status_code # 200 THEN raw
    ELSE HazardousAnswer(raw.cache,
                         CacheKey(BrowseUrl, BrowseParams(q.page, q.size)),
                         raw.resp.body,
                         HazardousFrom([recs |-> Records(raw.resp.body),
                                        ec |-> ec, filtered |-> <<>>],
                                       1, q, now))

\* neo_hazardous: neo_browse(page, size, mitigations=False, enrich=False),
\* then the loop.
neo_hazardous(c, ec, q, now, r) ==
    HazardousBrowsed(neo_browse(c, ec, q.page, q.size, FALSE, FALSE, now, r),
                     ec, q, now)

\* results.append(neo) after the two assignments gave `one`, and the return
\* when the limit is reached.
\* st = [results, seen_ids, recs, cache, ec, done]; done holds the response
\* once the handler has returned or raised.
\* The same without seen_ids.add(nid).
FilterKeptUnseen(st, i, one, limit) ==
    IF one.err # None
    THEN [st EXCEPT !.recs = one.recs, !.ec = one.ec,
                    !.done = Some(AsResponse(one.err[1]))]
    ELSE [st EXCEPT
            !.recs = one.recs,
            !.ec = one.ec,
            !.results = Append(@, one.recs[i]),
            !.done = IF Len(st.results) + 1 >= limit
                     THEN Some(Ok(ListBody(Append(st.results, one.recs[i]))))
                     ELSE None]

FilterKept(st, i, one, limit) ==
    IF one.err # None
    THEN [st EXCEPT !.recs = one.recs, !.ec = one.ec,
                    !.done = Some(AsResponse(one.err[1]))]
    ELSE [st EXCEPT
            !.recs = one.recs,
            !.ec = one.ec,
            !.results = Append(@, one.recs[i]),
            !.seen_ids = @ \cup {one.recs[i].id},
            !.done = IF Len(st.results) + 1 >= limit
                     THEN Some(Ok(ListBody(Append(st.results, one.recs[i]))))
                     ELSE None]

\* One round of the inner loop of neo_filter, passes being what
\* _passes_filters answered for record i.
FilterStep(st, i, passes, q, now) ==
    IF st.recs[i].id \in st.seen_ids THEN st
    ELSE IF ~passes.ok THEN [st EXCEPT !.done = Some(AsResponse(passes))]
    ELSE IF ~passes.val THEN st
    ELSE FilterKept(st, i,
                    Decorate([recs |-> st.recs, ec |-> st.ec, err |-> None],
                             i, q.mitigations, q.enrich, now),
                    q.limit)

RECURSIVE FilterRecords(_, _, _, _)
FilterRecords(st, i, q, now) ==
    IF st.done # None \/ i > Len(st.recs) THEN st
    ELSE FilterRecords(
           FilterStep(st, i, _passes_filters(st.recs[i], q.filters, now),
                      q, now),
           i + 1, q, now)

\* The page is done: its records, changed, are what the cache holds.
FilterPageDone(inner, c, key, data) ==
    [inner EXCEPT !.cache = Aliased(c, key, WithRecords(data, inner.recs))]

\* One round of the outer loop of neo_filter after _get has answered g.
FilterPage(st, g, key, q, now) ==
    IF ~g.out.ok
    THEN [st EXCEPT !.cache = g.cache, !.done = Some(AsResponse(g.out))]
    ELSE FilterPageDone(
           FilterRecords([st EXCEPT !.recs = Records(g.out.val),
                                    !.cache = g.cache], 1, q, now),
           g.cache, key, g.out.val)

\* The outer loop of neo_filter from the given page on; rs[page] is what the
\* upstream answers for that page.
RECURSIVE FilterPages(_, _, _, _, _)
FilterPages(st, page, q, now, rs) ==
    IF st.done # None \/ page >= q.pages THEN st
    ELSE FilterPages(
           FilterPage(st,
                      _get(st.cache, BrowseUrl, BrowseParams(page, q.size),
                           now, rs[page]),
                      CacheKey(BrowseUrl, BrowseParams(page, q.size)),
                      q, now),
           page + 1, q, now, rs)

\* The return of neo_filter: the one made in the loop, or the last one.
FilterAnswer(st) ==
    [resp |-> IF st.done # None THEN st.done[1]
              ELSE Ok(ListBody(st.results)),
     cache |-> st.cache,
     ec |-> st.ec]

neo_filter(c, ec, q, now, rs) ==
    FilterAnswer(FilterPages([results |-> <<>>, seen_ids |-> {},
                              recs |-> <<>>, cache |-> c, ec |-> ec,
                              done |-> None],
                             0, q, now, rs))

----------------------------------------------------------------------------
(* Specification of the routes: requests served one after the other from an
   empty cache, the upstream answering each fetch with a status of its own *)

\* How many requests a behaviour serves.
MaxRequests == 2

\* The limit of neo_filter when the query gives none.
DefaultLimit == 200

\* The status codes the upstream answers with.
UpstreamStatuses == {200, 404, 429}

RouteNeo(id, name, dmin, dmax, haz, H, aps) ==
    [id |-> id,
     name |-> name,
     estimated_diameter_min |-> dmin,
     estimated_diameter_max |-> dmax,
     is_potentially_hazardous_asteroid |-> haz,
     absolute_magnitude_h |-> H,
     close_approach_data |-> aps,
     assessment |-> None,
     enrichment |-> None,
     enrichment_error |-> None]

RouteApproach(miss) ==
    [miss |-> Some(miss), vel |-> Some(12),
     close_approach_date_full |-> DateStr("aware", 10 * DaySecs + 5000),
     close_approach_date |-> NoStr,
     orbiting_body |-> Some("Earth")]

\* The records of the upstream catalog.
Apophis ==
    RouteNeo("1", "Apophis", Some(300), Some(400), TRUE, Some(19),
             <<RouteApproach(400000)>>)

Bennu == RouteNeo("2", "Bennu", None, None, FALSE, Some(22), <<>>)

Eros ==
    RouteNeo("3", "Eros", Some(100), Some(120), TRUE, None,
             <<RouteApproach(7000000)>>)

RouteLabels == {"Apophis", "Bennu", "Eros"}

RouteIds == {"1"}

StartDates == {"2024-01-01"}

Pages == {0, 1}

Sizes == {2}

\* The bodies the upstream sends with status 200.
FeedBody == [near_earth_objects |-> <<Apophis>>]

DetailBody(neo_id) == Apophis

BrowseBody(page) ==
    [near_earth_objects |->
        CASE page = 0 -> <<Apophis, Bennu>>
          [] page = 1 -> <<Bennu, Eros>>
          [] OTHER -> <<>>]

Answer(status_code, json) == [status_code |-> status_code, json |-> json]

RouteKeys ==
    {CacheKey(FeedUrl, FeedParams(d)) : d \in StartDates}
    \cup {CacheKey(DetailUrl(id), <<ApiKey>>) : id \in RouteIds}
    \cup {CacheKey(BrowseUrl, BrowseParams(p, z)) :
            p \in Pages, z \in Sizes}

\* Catalog A knows none of the labels; catalog B has a density for each.
RouteWorld ==
    [ssodnet |-> [l \in RouteLabels |->
                    SsodResponse("no_match", None, None, None, None, None)],
     sbdb |-> [l \in RouteLabels |->
                    SbdbResponse("phys", None, None, Some(1900))]]

\* The parameters neo_hazardous has when the query gives none.
HazardousDefaults ==
    [min_diameter_km |-> 0, max_miss_distance_km |-> 10000000,
     max_diameter_km |-> None, min_miss_distance_km |-> None,
     min_rel_vel_kms |-> None, max_rel_vel_kms |-> None,
     days_max |-> None, approach_body |-> None]

RouteFilters ==
    {NoFilters, [NoFilters EXCEPT !.hazardous = Some(TRUE)]}

\* One request served: the response, and the two caches afterwards.
Serve(route, request, out) ==
    /\ served < MaxRequests
    /\ served' = served + 1
    /\ op' = route
    /\ arg' = request
    /\ ret' = out.resp
    /\ cache' = out.cache
    /\ enrich_cache' = out.ec
    /\ UNCHANGED <<prev, clock, world, threads>>

NeoFeed ==
    \E start_date \in StartDates, mitigations \in BOOLEAN,
       status \in UpstreamStatuses :
        Serve("neo_feed",
              [start_date |-> start_date, mitigations |-> mitigations,
               upstream |-> <<status>>],
              neo_feed(cache, enrich_cache, start_date, mitigations, clock,
                       Answer(status, FeedBody)))

NeoDetail ==
    \E neo_id \in RouteIds, mitigations \in BOOLEAN, enrich \in BOOLEAN,
       status \in UpstreamStatuses :
        Serve("neo_detail",
              [neo_id |-> neo_id, mitigations |-> mitigations,
               enrich |-> enrich, upstream |-> <<status>>],
              neo_detail(cache, enrich_cache, neo_id, mitigations, enrich,
                         clock, Answer(status, DetailBody(neo_id))))

NeoBrowse ==
    \E page \in Pages, size \in Sizes, mitigations \in BOOLEAN,
       enrich \in BOOLEAN, status \in UpstreamStatuses :
        Serve("neo_browse",
              [page |-> page, size |-> size, mitigations |-> mitigations,
               enrich |-> enrich, upstream |-> <<status>>],
              neo_browse(cache, enrich_cache, page, size, mitigations,
                         enrich, clock, Answer(status, BrowseBody(page))))

NeoFilter ==
    \E pages \in {1, 2}, size \in Sizes, limit \in {1, DefaultLimit},
       filters \in RouteFilters, mitigations \in BOOLEAN,
       enrich \in BOOLEAN :
        \E statuses \in [0..(pages - 1) -> UpstreamStatuses] :
            LET q == [pages |-> pages, size |-> size, limit |-> limit,
                      filters |-> filters, mitigations |-> mitigations,
                      enrich |-> enrich]
            IN  Serve("neo_filter",
                      q @@ [upstream |-> [p \in 1..pages |-> statuses[p - 1]]],
                      neo_filter(cache, enrich_cache, q, clock,
                                 [p \in 0..(pages - 1) |->
                                    Answer(statuses[p], BrowseBody(p))]))

NeoHazardous ==
    \E page \in Pages, size \in Sizes, mitigations \in BOOLEAN,
       enrich \in BOOLEAN, status \in UpstreamStatuses :
        LET q == HazardousDefaults
                 @@ [page |-> page, size |-> size,
                     mitigations |-> mitigations, enrich |-> enrich]
        IN  Serve("neo_hazardous",
                  q @@ [upstream |-> <<status>>],
                  neo_hazardous(cache, enrich_cache, q, clock,
                                Answer(status, BrowseBody(page))))

NeoEnrich ==
    \E neo_id \in RouteIds, status \in UpstreamStatuses :
        Serve("neo_enrich",
              [neo_id |-> neo_id, upstream |-> <<status>>],
              neo_enrich(cache, enrich_cache, neo_id, clock,
                         Answer(status, DetailBody(neo_id))))

InitRoutes ==
    /\ op = "init"
    /\ arg = None
    /\ ret = None
    /\ prev = None
    /\ clock = 0
    /\ cache = [k \in RouteKeys |-> None]
    /\ enrich_cache = [l \in RouteLabels |-> None]
    /\ world = RouteWorld
    /\ served = 0
    /\ threads = <<>>

NextRoutes ==
    \/ NeoFeed
    \/ NeoDetail
    \/ NeoBrowse
    \/ NeoFilter
    \/ NeoHazardous
    \/ NeoEnrich

SpecRoutes == InitRoutes /\ [][NextRoutes]_vars

----------------------------------------------------------------------------
(* Specification of the fetch cache under concurrent requests.  The handlers
   are plain functions, which the server runs on a pool of worker threads;
   _cache is a module-level dict and no lock guards it.  A thread runs
   _cache_get and _cache_set one statement at a time, the statements of the
   threads interleaving.  _enrich_cache_get and _enrich_cache_set, lines
   565-575, are the same statements on _enrich_cache. *)

Threads == {1, 2}

\* How many times the clock is advanced while the threads run.
MaxCacheTicks == 2

ThreadKeys == {CacheKey(FeedUrl, FeedParams(d)) : d \in {"2025-01-01"}}

ThreadData == {"body1", "body2"}

Idle == [pc |-> "idle", key |-> None, item |-> None, exp |-> None,
         data |-> None]

\* The call of thread t returns v.
ThreadReturns(t, name, v) ==
    /\ threads' = [threads EXCEPT ![t] = Idle]
    /\ prev' = Some([op |-> op, arg |-> arg, ret |-> ret])
    /\ op' = name
    /\ arg' = [thread |-> t, key |-> threads[t].key[1]]
    /\ ret' = v

\* Line 359: item = _cache.get(key).
CacheGetRead(t, key) ==
    /\ threads[t].pc = "idle"
    /\ threads' = [threads EXCEPT
                     ![t] = [Idle EXCEPT !.pc = "get_test",
                                         !.key = Some(key),
                                         !.item = cache[key]]]
    /\ UNCHANGED <<op, arg, ret, prev, clock, cache, enrich_cache, world,
                   served>>

\* Lines 360-362 and 365: nothing read returns None; time.time() is read and
\* compared with the expiry of the item read; an unexpired item is returned.
CacheGetTest(t) ==
    /\ threads[t].pc = "get_test"
    /\ IF threads[t].item = None
       THEN ThreadReturns(t, "_cache_get", None)
       ELSE IF clock > threads[t].item[1].exp
       THEN /\ threads' = [threads EXCEPT ![t].pc = "get_pop"]
            /\ UNCHANGED <<op, arg, ret, prev>>
       ELSE ThreadReturns(t, "_cache_get", Some(threads[t].item[1].data))
    /\ UNCHANGED <<clock, cache, enrich_cache, world, served>>

\* Lines 363-364: _cache.pop(key, None) removes whatever the key holds now.
CacheGetPop(t) ==
    /\ threads[t].pc = "get_pop"
    /\ cache' = [cache EXCEPT ![threads[t].key[1]] = None]
    /\ ThreadReturns(t, "_cache_get", None)
    /\ UNCHANGED <<clock, enrich_cache, world, served>>

\* Line 368, the right-hand side: time.time() + ttl.
CacheSetStamp(t, key, data) ==
    /\ threads[t].pc = "idle"
    /\ threads' = [threads EXCEPT
                     ![t] = [Idle EXCEPT !.pc = "set_store",
                                         !.key = Some(key),
                                         !.exp = Some(clock + CACHE_TTL),
                                         !.data = Some(data)]]
    /\ UNCHANGED <<op, arg, ret, prev, clock, cache, enrich_cache, world,
                   served>>

\* Line 368, the store: _cache[key] = (exp, data).
CacheSetStore(t) ==
    /\ threads[t].pc = "set_store"
    /\ cache' = [cache EXCEPT
                   ![threads[t].key[1]] =
                       Some([exp |-> threads[t].exp[1],
                             data |-> threads[t].data[1]])]
    /\ ThreadReturns(t, "_cache_set", None)
    /\ UNCHANGED <<clock, enrich_cache, world, served>>

\* Time passes: to the last second an entry stored now is kept, or to the
\* first second it is not.
TickCache ==
    /\ clock \div CACHE_TTL < MaxCacheTicks
    /\ \E step \in {CACHE_TTL, CACHE_TTL + 1} : clock' = clock + step
    /\ UNCHANGED <<op, arg, ret, prev, cache, enrich_cache, world, served,
                   threads>>

InitCache ==
    /\ op = "init"
    /\ arg = None
    /\ ret = None
    /\ prev = None
    /\ clock = 0
    /\ cache = [k \in ThreadKeys |-> None]
    /\ enrich_cache = None
    /\ world = None
    /\ served = 0
    /\ threads = [t \in Threads |-> Idle]

NextCache ==
    \/ \E t \in Threads, key \in ThreadKeys : CacheGetRead(t, key)
    \/ \E t \in Threads : CacheGetTest(t)
    \/ \E t \in Threads : CacheGetPop(t)
    \/ \E t \in Threads, key \in ThreadKeys, data \in ThreadData :
           CacheSetStamp(t, key, data)
    \/ \E t \in Threads : CacheSetStore(t)
    \/ TickCache

SpecCache == InitCache /\ [][NextCache]_vars

----------------------------------------------------------------------------
(* Specification of the primary fetch: calls of _get one after the other, as
   time passes and the upstream answers with any status.  In this
   specification world records, for each cache key, the last answer of
   status 200 the upstream gave and the time it gave it. *)

\* How many times the clock is advanced between the fetches.
MaxFetchTicks == 2

\* The query dicts: one dict in its two insertion orders, and another dict.
FetchDicts ==
    {<<ApiKey, <<"start_date", "2025-01-01">>>>,
     <<<<"start_date", "2025-01-01">>, ApiKey>>,
     <<ApiKey, <<"start_date", "2025-01-02">>>>}

FetchKeySet == {CacheKey(FeedUrl, d) : d \in FetchDicts}

FetchBodies == {[element_count |-> n] : n \in {1, 2}}

\* What the upstream answers when it is contacted.
FetchAnswers ==
    {[status_code |-> 200, json |-> b] : b \in FetchBodies}
    \cup {[status_code |-> c, json |-> None] : c \in UpstreamStatuses \ {200}}

\* _get(url, params), the upstream answering r if it is contacted.
Get(url, params, r) ==
    LET g == _get(cache, url, params, clock, r)
        key == CacheKey(url, params)
    IN  /\ op' = "_get"
        /\ arg' = [url |-> url, params |-> params, key |-> key, r |-> r]
        /\ ret' = [out |-> g.out, contacted |-> g.contacted]
        /\ prev' = IF op = "init" THEN None
                   ELSE Some([op |-> op, arg |-> arg, ret |-> ret])
        /\ cache' = g.cache
        /\ world' = IF g.contacted /\ r.status_code = 200
                    THEN [world EXCEPT
                            ![key] = Some([t |-> clock, json |-> r.json])]
                    ELSE world
        /\ UNCHANGED <<clock, enrich_cache, served, threads>>

GetAny == \E params \in FetchDicts, r \in FetchAnswers : Get(FeedUrl, params, r)

\* Time passes: to the last second an entry stored now is kept, or to the
\* first second it is not.
TickFetch ==
    /\ clock \div CACHE_TTL < MaxFetchTicks
    /\ \E step \in {CACHE_TTL, CACHE_TTL + 1} : clock' = clock + step
    /\ UNCHANGED <<op, arg, ret, prev, cache, enrich_cache, world, served,
                   threads>>

InitFetch ==
    /\ op = "init"
    /\ arg = None
    /\ ret = None
    /\ prev = None
    /\ clock = 0
    /\ cache = [k \in FetchKeySet |-> None]
    /\ enrich_cache = None
    /\ world = [k \in FetchKeySet |-> None]
    /\ served = 0
    /\ threads = <<>>

NextFetch == GetAny \/ TickFetch

SpecFetch == InitFetch /\ [][NextFetch]_vars

----------------------------------------------------------------------------
(* Specification of the assessment: build_assessment on the record the
   initial state draws, the diameters, miss distances and dates on either
   side of the thresholds of the classifier and of the advisor *)

AssessDates ==
    {<<NoStr, NoStr>>, <<NoStr, DateStr("naive", 10 * DaySecs + 5)>>}
    \cup {<<DateStr("aware", d * DaySecs + 5), NoStr>> : d \in {10, 200, 400}}

AssessApproaches ==
    {[miss |-> m, vel |-> Some(12),
      close_approach_date_full |-> d[1], close_approach_date |-> d[2],
      orbiting_body |-> Some("Earth")] :
        m \in {Some(400000), Some(7000000)}, d \in AssessDates}

AssessApproachLists ==
    UNION {[1..n -> AssessApproaches] : n \in 0..MaxApproaches}

AssessNeos ==
    {NeoRecord(1, None, d, TRUE, None, aps) :
        d \in {None, Some(40), Some(120), Some(350)},
        aps \in AssessApproachLists}

BuildAssessment ==
    /\ op = "init"
    /\ op' = "build_assessment"
    /\ ret' = build_assessment(arg.neo, clock)
    /\ UNCHANGED <<arg, prev, clock, cache, enrich_cache, world, served,
                   threads>>

InitAssess ==
    /\ op = "init"
    /\ arg \in [neo : AssessNeos]
    /\ ret = None
    /\ Quiet

NextAssess == BuildAssessment

SpecAssess == InitAssess /\ [][NextAssess]_vars

----------------------------------------------------------------------------
(* Specification of the filter route: one neo_filter request on an empty
   cache, over the browse pages, the filter set and the limit the initial
   state draws; the upstream answers every page with status 200 *)

\* The most pages a request asks for.
MaxPages == 2

\* The pages of the upstream: up to two records each, a record possibly
\* twice on a page and on several pages.
PageBodies ==
    {[near_earth_objects |-> recs] :
        recs \in UNION {[1..n -> {Apophis, Bennu, Eros}] : n \in 0..2}}

PageFilters ==
    {NoFilters,
     [NoFilters EXCEPT !.hazardous = Some(TRUE)],
     [NoFilters EXCEPT !.min_diameter_km = Some(200)]}

PageKey(page, size) == CacheKey(BrowseUrl, BrowseParams(page, size))

FilterRequests ==
    [pages : 1..MaxPages, size : Sizes, limit : {1, 2, DefaultLimit},
     filters : PageFilters,
     decorate : {<<TRUE, FALSE>>, <<FALSE, TRUE>>},
     bodies : [0..(MaxPages - 1) -> PageBodies]]

FilterOnce ==
    LET q == [pages |-> arg.pages, size |-> arg.size, limit |-> arg.limit,
              filters |-> arg.filters, mitigations |-> arg.decorate[1],
              enrich |-> arg.decorate[2]]
        out == neo_filter(cache, enrich_cache, q, clock,
                          [p \in 0..(arg.pages - 1) |->
                             Answer(200, arg.bodies[p])])
    IN  /\ op = "init"
        /\ op' = "neo_filter"
        /\ ret' = out.resp
        /\ cache' = out.cache
        /\ enrich_cache' = out.ec
        /\ UNCHANGED <<arg, prev, clock, world, served, threads>>

InitFilterRoute ==
    /\ op = "init"
    /\ arg \in FilterRequests
    /\ ret = None
    /\ prev = None
    /\ clock = 0
    /\ cache = [k \in {PageKey(p, z) : p \in 0..(MaxPages - 1), z \in Sizes}
                  |-> None]
    /\ enrich_cache = [l \in RouteLabels |-> None]
    /\ world = RouteWorld
    /\ served = 0
    /\ threads = <<>>

NextFilterRoute == FilterOnce

SpecFilterRoute == InitFilterRoute /\ [][NextFilterRoute]_vars

\* C1: compute_metrics returns, for a record with at least one parseable
\* miss distance, the minimum of all parseable miss distances as
\* min_miss_km, whatever the entry's velocity and date fields hold; with no
\* parseable miss distance min_miss_km is null and max_rel_vel_kms is 0.
ParseableMisses(neo) ==
    {neo.close_approach_data[i].miss[1] :
        i \in {j \in DOMAIN neo.close_approach_data :
                   neo.close_approach_data[j].miss # None}}

C1_MinOfAllParseableMisses ==
    op = "compute_metrics" =>
        /\ ret.ok
        /\ IF ParseableMisses(arg.neo) # {}
           THEN ret.val.min_miss_km = Some(SetMin(ParseableMisses(arg.neo)))
           ELSE ret.val.min_miss_km = None /\ ret.val.max_rel_vel_kms = 0

\* C2: classify_threat is monotone: with the other two inputs fixed, a larger
\* diameter never lowers the tier, and a larger miss distance or a larger
\* day count (negative ones included) never raises it.
C2_ThreatMonotone ==
    op = "classify_threat" =>
        LET a == arg.m
            b == arg.m2
            SameBut(f) == \A g \in (DOMAIN a) \ {f} : a[g] = b[g]
            Less(f) == a[f] # None /\ b[f] # None /\ a[f][1] < b[f][1]
        IN  /\ (SameBut("diameter_km") /\ Less("diameter_km"))
                => Rank(ret.level) <= Rank(ret.level2)
            /\ (SameBut("min_miss_km") /\ Less("min_miss_km"))
                => Rank(ret.level) >= Rank(ret.level2)
            /\ (SameBut("days_to_soonest_approach")
                    /\ Less("days_to_soonest_approach"))
                => Rank(ret.level) >= Rank(ret.level2)

\* Reached: a pair that differs only in the day count, one negative, and
\* whose tiers differ.
C2_Witness ==
    /\ op = "classify_threat"
    /\ arg.m.diameter_km = arg.m2.diameter_km
    /\ arg.m.min_miss_km = arg.m2.min_miss_km
    /\ arg.m.days_to_soonest_approach = Some(-3)
    /\ arg.m2.days_to_soonest_approach = Some(400)
    /\ Rank(ret.level) > Rank(ret.level2)

\* C3: classify_threat returns the tier of base + miss bonus + day bonus as
\* the specification tabulates them; (0.35 km, 500,000 km, 10 days) is
\* CRITICAL and (0.02 km, 8,000,000 km, 400 days) is LOW.
TabulatedScore(m) ==
    LET dia == IF m.diameter_km = None THEN 0 ELSE m.diameter_km[1]
        miss == m.min_miss_km
        days == m.days_to_soonest_approach
        base == IF dia >= 300 THEN 6 ELSE IF dia >= 50 THEN 4 ELSE 2
        missBonus == IF miss = None THEN 0
                     ELSE IF miss[1] < 1000000 THEN 2
                     ELSE IF miss[1] < 5000000 THEN 1 ELSE 0
        dayBonus == IF days = None THEN 0
                    ELSE IF days[1] <= 30 THEN 2
                    ELSE IF days[1] <= 365 THEN 1 ELSE 0
    IN  base + missBonus + dayBonus

TabulatedTier(m) ==
    LET score == TabulatedScore(m)
    IN  IF score >= 8 THEN "CRITICAL"
        ELSE IF score >= 6 THEN "HIGH"
        ELSE IF score >= 4 THEN "MODERATE"
        ELSE "LOW"

C3_ThreatScoreTable ==
    op = "classify_threat" =>
        /\ ret.level = TabulatedTier(arg.m)
        /\ arg.m = Summary(Some(350), Some(500000), Some(10))
            => ret.level = "CRITICAL"
        /\ arg.m = Summary(Some(20), Some(8000000), Some(400))
            => ret.level = "LOW"

C3_Witness ==
    /\ op = "classify_threat"
    /\ arg.m = Summary(Some(350), Some(500000), Some(10))
    /\ ret.level = "CRITICAL"

\* C4: mitigation_suggestions returns, for every summary (the all-null one
\* included) and every level, a list of at least one entry whose first entry
\* is the baseline monitoring suggestion.
C4_BaselineFirst ==
    op = "mitigation_suggestions" =>
        /\ Len(ret) >= 1
        /\ ret[1] = Monitoring

C4_Witness ==
    /\ op = "mitigation_suggestions"
    /\ arg.m = AllNullSummary
    /\ arg.level = "CRITICAL"
    /\ ret = <<Monitoring, Coordination>>

\* C5: the ocean block of the result of estimate_impact_effects is present
\* exactly when the target is water or ice or a water depth is supplied,
\* whatever the other inputs are.
OceanRequested(a) ==
    a.target \in {"water", "Ice"} \/ a.water_depth_m # None

C8_CraterBlock ==
    (op = "estimate_impact_effects" /\ ret.ok) =>
        LET c == ret.val.crater
        IN  IF c.transient_diameter_m = None
            THEN c.final_diameter_m = None /\ c.depth = None /\ c.type = None
            ELSE /\ c.final_diameter_m # None
                 /\ 4 * c.final_diameter_m[1].m = 5 * c.transient_diameter_m[1].m
                 /\ c.type = Some("simple") <=> c.final_diameter_m[1].m < 3200
                 /\ c.type = Some("complex") <=> c.final_diameter_m[1].m >= 3200
                 /\ c.depth # None
                 /\ c.depth[1].formula = c.type[1]
                 /\ c.depth[1].of = c.final_diameter_m[1].m
                 /\ c.type = Some("simple")
                      => 5 * c.depth[1].m = c.final_diameter_m[1].m

\* Reached: a final diameter of exactly 3.2 km, a complex crater.
C8_Witness ==
    /\ op = "estimate_impact_effects"
    /\ ret.ok
    /\ ret.val.crater.transient_diameter_m = Some([complex |-> FALSE, m |-> 2560])
    /\ ret.val.crater.final_diameter_m = Some([complex |-> FALSE, m |-> 3200])
    /\ ret.val.crater.type = Some("complex")
    /\ ret.val.crater.depth = Some(ComplexDepth(3200))

\* C6: two successive calls of enrich_by_label with the same label, the
\* same context and the same provider answers return profiles that agree on
\* every field, whether the second is served from the cache or recomputed
\* after expiry.
C6_EnrichIdempotent ==
    (op = "enrich_by_label" /\ prev # None /\ prev[1].op = "enrich_by_label"
        /\ prev[1].arg = arg)
    => ret = prev[1].ret

\* C7: every field of mass, density and diameter for which catalog A returns
\* a non-null value keeps catalog A's value whatever catalog B returns, and
\* whenever catalog A supplied a non-null value the source is catalog A's.
SsodSupplied(a) ==
    {k \in {"mass_kg", "density_g_cm3", "diameter_km"} :
        Got(a, "card", k) # None}

FieldValue(profile, k) ==
    IF k = "mass_kg"
    THEN IF profile.mass_kg = None \/ profile.mass_kg[1].by # "given"
         THEN None
         ELSE Some(profile.mass_kg[1].kg)
    ELSE profile[k]

C7_CatalogAFirst ==
    op = "enrich_by_label" =>
        LET a == world.ssodnet[arg.label]
        IN  /\ \A k \in SsodSupplied(a) : FieldValue(ret, k) = a[k]
            /\ SsodSupplied(a) # {} => ret.source = Some("ssodnet")

\* C9: a record passes _passes_filters exactly when every supplied bound is
\* met by a non-null value in range: for every kind of bound supplied, a
\* record whose value of that kind is null or missing is rejected, and no
\* record is rejected on account of a kind that was not supplied.
\* The approaches of a record that carry a date and a body satisfying the
\* supplied window and body.
ApproachMeets(ap, f) ==
    LET dstr == ApproachDateStr(ap)
        dated == dstr.kind \in {"aware", "naive", "alt"}
    IN  /\ f.date_from # None
            => dated /\ dstr.t \div DaySecs >= f.date_from[1].t \div DaySecs
        /\ f.date_to # None
            => dated /\ dstr.t \div DaySecs <= f.date_to[1].t \div DaySecs
        /\ f.approach_body # None
            => ap.orbiting_body # None
               /\ LowerBody(ap.orbiting_body[1]) = f.approach_body[1]

\* The entries compute_metrics counts: both numbers parse.
CountedApproaches(neo) ==
    {i \in DOMAIN neo.close_approach_data :
        neo.close_approach_data[i].miss # None
        /\ neo.close_approach_data[i].vel # None}

BoundsMet(neo, f, m) ==
    LET InRange(lo, hi, value) ==
            /\ lo # None => value # None /\ value[1] >= lo[1]
            /\ hi # None => value # None /\ value[1] <= hi[1]
        velocity == IF CountedApproaches(neo) = {} THEN None
                    ELSE Some(m.max_rel_vel_kms)
    IN  /\ f.hazardous # None => m.is_hazardous = f.hazardous[1]
        /\ InRange(f.min_diameter_km, f.max_diameter_km, m.diameter_km)
        /\ InRange(f.min_miss_km, f.max_miss_km, m.min_miss_km)
        /\ InRange(f.min_rel_vel_kms, f.max_rel_vel_kms, velocity)
        /\ InRange(f.days_min, f.days_max, m.days_to_soonest_approach)
        /\ InRange(f.mag_h_min, f.mag_h_max, m.absolute_magnitude_h)
        /\ (f.date_from # None \/ f.date_to # None \/ f.approach_body # None)
            => \E i \in DOMAIN neo.close_approach_data :
                   ApproachMeets(neo.close_approach_data[i], f)

C9_PassesIffBoundsMet ==
    op = "_passes_filters" =>
        /\ ret.ok
        /\ ret.val <=> BoundsMet(arg.neo, arg.filters,
                                 compute_metrics(arg.neo, clock, clock).val)

\* C10: whenever a route contacts the upstream for its primary fetch and the
\* upstream answers with a non-success status, the request fails with that
\* status code unchanged (feed, detail, browse, filter, hazardous, enrich).
\* The cache keys a request fetches, in the order it fetches them.
FetchKeys(route, request) ==
    CASE route = "neo_feed" ->
           <<CacheKey(FeedUrl, FeedParams(request.start_date))>>
      [] route \in {"neo_detail", "neo_enrich"} ->
           <<CacheKey(DetailUrl(request.neo_id), <<ApiKey>>)>>
      [] route \in {"neo_browse", "neo_hazardous"} ->
           <<CacheKey(BrowseUrl,
                      BrowseParams(request.page, request.size))>>
      [] route = "neo_filter" ->
           [p \in 1..request.pages |->
              CacheKey(BrowseUrl, BrowseParams(p - 1, request.size))]

\* The fetches of a request that are not served from the cache and that the
\* upstream answers with a non-success status.
FailedFetches(route, request, c, now) ==
    {i \in DOMAIN request.upstream :
        /\ _cache_get(c, FetchKeys(route, request)[i], now)[1] = None
        /\ request.upstream[i] # 200}

\* A filter request with the default limit collects fewer records than the
\* limit and so fetches its pages until one fails.
C10_UpstreamStatusPreserved ==
    [][(/\ served' = served + 1
        /\ FailedFetches(op', arg', cache, clock) # {}
        /\ (op' = "neo_filter" => arg'.limit = DefaultLimit))
        => ret'.status_code
             = arg'.upstream[SetMin(FailedFetches(op', arg', cache, clock))]
      ]_vars

\* C11: enrich_by_label never fails: for every combination of provider
\* outcomes it returns a profile; a provider that failed contributes no field
\* and is not the source, and the remaining stages still run, so the profile
\* has a density and a source.
C11_EnrichNeverFails ==
    op = "enrich_by_label" =>
        LET a == world.ssodnet[arg.label]
            b == world.sbdb[arg.label]
        IN  /\ ~Raised(ret)
            /\ ret.source # None
            /\ ret.density_g_cm3 # None
            /\ (a.outcome \in SsodFailures
                    => /\ ret.source # Some("ssodnet")
                       /\ ret.taxonomy = None
                       /\ ret.bibcode = None)
            /\ (b.outcome \in SbdbFailures => ret.source # Some("sbdb"))

\* C12: the cache is safe under concurrent requests: in every interleaving
\* of _cache_get and _cache_set on one key by different threads, a
\* _cache_get that returns never removes an entry that is unexpired at that
\* moment, and the data it returns comes from an entry whose expiry had not
\* passed when the clock was read.
GetReturns(t) ==
    /\ threads[t].pc \in {"get_test", "get_pop"}
    /\ threads'[t].pc = "idle"

C12_CacheSafeUnderThreads ==
    [][\A t \in Threads :
          GetReturns(t) =>
              /\ \A k \in ThreadKeys :
                    (cache[k] # None /\ clock <= cache[k][1].exp)
                        => cache'[k] # None
              /\ (ret' # None => clock <= threads[t].item[1].exp)]_vars

\* C13: _get caches by endpoint and query items with a time to live: once the
\* upstream has answered a key with status 200 at time t, every later _get of
\* that key (the items given in any order) at a time <= t + CACHE_TTL
\* returns that answer, does not contact the upstream and leaves the entry
\* alone; a _get with no such answer, or after t + CACHE_TTL, contacts the
\* upstream, and then an answer of status 200 is returned and replaces the
\* entry, while any other answer is raised and leaves no entry.
LastGood(key) == world[key]

FreshAt(key, now) ==
    /\ LastGood(key) # None
    /\ now <= LastGood(key)[1].t + CACHE_TTL

RuleTable ==
    <<Monitoring, Coordination, CivilProtection, KineticImpactor,
      GravityTractor, StandoffNuclear>>

RuleHolds(n, m, level) ==
    LET days == m.days_to_soonest_approach
        miss == m.min_miss_km
        dia_m == IF m.diameter_km = None THEN 0 ELSE m.diameter_km[1]
    IN  CASE n = 1 -> TRUE
          [] n = 2 -> level \in {"MODERATE", "HIGH", "CRITICAL"}
          [] n = 3 -> \/ (days # None /\ days[1] <= 30)
                      \/ (miss # None /\ miss[1] < 1000000)
          [] n = 4 -> dia_m >= 50 /\ (days = None \/ days[1] > 30)
          [] n = 5 -> dia_m >= 100 /\ days # None /\ days[1] > 365
          [] n = 6 -> /\ level \in {"HIGH", "CRITICAL"}
                      /\ days # None /\ days[1] <= 365
                      /\ dia_m >= 150

RuleOf(suggestion) == CHOOSE n \in DOMAIN RuleTable : RuleTable[n] = suggestion

C14_RuleTable ==
    op = "mitigation_suggestions" =>
        /\ \A i \in DOMAIN ret : \E n \in DOMAIN RuleTable : ret[i] = RuleTable[n]
        /\ \A i, j \in DOMAIN ret : i < j => RuleOf(ret[i]) < RuleOf(ret[j])
        /\ \A n \in DOMAIN RuleTable :
              (\E i \in DOMAIN ret : ret[i] = RuleTable[n])
                  <=> RuleHolds(n, arg.m, arg.level)

\* Every threshold met exactly: days 30, miss 1,000,000 km, diameter 0.15 km.
C14_Witness ==
    /\ op = "mitigation_suggestions"
    /\ arg.m = Summary(Some(150), Some(1000000), Some(30))
    /\ arg.level = "HIGH"
    /\ ret = <<Monitoring, Coordination, CivilProtection, StandoffNuclear>>

\* C15: whenever compute_metrics returns, soonest_approach_utc is the
\* earliest timestamp among the entries whose date parses (null when there
\* is none): an entry whose date is missing or parses under no format
\* contributes no timestamp, while its miss distance and velocity, when
\* valid, still count.
\* The entries the loop does not skip: miss distance and velocity both valid.
ValidEntries(neo) ==
    {i \in DOMAIN neo.close_approach_data :
        /\ neo.close_approach_data[i].miss # None
        /\ neo.close_approach_data[i].vel # None}

ParsedInstants(neo) ==
    {ApproachDateStr(neo.close_approach_data[i]).t :
        i \in {j \in ValidEntries(neo) :
                 ApproachDateStr(neo.close_approach_data[j]).kind
                     \in {"aware", "naive", "alt"}}}

C15_SoonestAmongParsedDates ==
    (op = "compute_metrics" /\ ret.ok) =>
        /\ IF ParsedInstants(arg.neo) = {}
           THEN ret.val.soonest_approach_utc = None
           ELSE /\ ret.val.soonest_approach_utc # None
                /\ ret.val.soonest_approach_utc[1].t
                       = SetMin(ParsedInstants(arg.neo))
        /\ ValidEntries(arg.neo) # {}
              => ret.val.min_miss_km =
                     Some(SetMin({arg.neo.close_approach_data[i].miss[1] :
                                     i \in ValidEntries(arg.neo)}))

\* C16: in every scenario estimate_impact_effects returns, the density of
\* inputs_resolved is the override when one is supplied, else the profile's
\* density when the profile has one, else the default, so it is never null;
\* and whenever a diameter (not zero) is resolved, the mass and the kinetic
\* energy are not null.
C16_DensityPrecedence ==
    (op = "estimate_impact_effects" /\ ret.ok) =>
        LET r == ret.val.inputs_resolved
            expected ==
                IF arg.override_density_g_cm3 # None
                THEN arg.override_density_g_cm3
                ELSE IF arg.enr # None /\ arg.enr[1].density_g_cm3 # None
                THEN arg.enr[1].density_g_cm3
                ELSE Some(DefaultRhoMilli)
        IN  /\ r.density_g_cm3 = expected
            /\ r.density_g_cm3 # None
            /\ (Truthy(r.diameter_km)
                  => (r.mass_kg # None /\ ret.val.energy.kinetic_j # None))

\* C17: in every scenario estimate_impact_effects returns, the velocity of
\* inputs_resolved is the override whenever one is supplied, whatever its
\* value; otherwise the largest relative velocity of the record's approaches
\* when the record has an approach with a valid miss distance and velocity,
\* and 20 km/s when it has none.
ApproachVelocities(neo) ==
    {neo.close_approach_data[i].vel[1] : i \in ValidEntries(neo)}

SetMax(S) == CHOOSE x \in S : \A y \in S : y <= x

C17_VelocityPrecedence ==
    (op = "estimate_impact_effects" /\ ret.ok) =>
        ret.val.inputs_resolved.velocity_kms =
            IF arg.velocity_kms # None THEN arg.velocity_kms[1]
            ELSE IF ApproachVelocities(arg.neo) # {}
            THEN SetMax(ApproachVelocities(arg.neo))
            ELSE 20

\* C19: for every seismic coupling supplied, estimate_impact_effects does
\* not fail in the seismic computation, Mw is null exactly when the kinetic
\* energy is null, zero or negative, and the kinetic energy is null exactly
\* when the resolved mass is null.
C19_SeismicDefined ==
    op = "estimate_impact_effects" =>
        /\ (ret.ok \/ ret.err # "ValueError")
        /\ (ret.ok =>
              LET E == ret.val.energy.kinetic_j
              IN  /\ (ret.val.seismic.Mw = None) <=> (E = None \/ E[1] <= 0)
                  /\ (E = None) <=> (ret.val.inputs_resolved.mass_kg = None))

\* C18: whenever no provider supplies a density and catalog A supplies a
\* taxonomy class of the static table, the density enrich_by_label resolves
\* is the table's density for that class, also when the class is the only
\* thing catalog A supplies; the default density is resolved only when no
\* class is known or the class is not in the table.
C18_TaxonomyDensity ==
    op = "enrich_by_label" =>
        LET a == world.ssodnet[arg.label]
            b == world.sbdb[arg.label]
            taxo == Got(a, "card", "taxonomy")
            tabled == IF taxo = None THEN None ELSE TAXO_RHO(Upper(taxo[1]))
        IN  (/\ Got(a, "card", "density_g_cm3") = None
             /\ Got(b, "phys", "density_g_cm3") = None)
                => ret.density_g_cm3 =
                       IF tabled # None THEN tabled ELSE Some(DefaultRhoMilli)

\* C20: derived data never leaks through the fetch cache: after any sequence
\* of requests to feed, detail, browse, filter and hazardous, a feed or
\* browse request with mitigations = false (and, for browse, enrich = false)
\* that is answered returns records with no assessment and no enrichment.
PlainListRequest ==
    /\ op \in {"neo_feed", "neo_browse"}
    /\ ~arg.mitigations
    /\ (op = "neo_browse" => ~arg.enrich)
    /\ ret.status_code = 200

C20_NoDerivedDataLeak ==
    PlainListRequest =>
        \A i \in DOMAIN Records(ret.body) :
            /\ Records(ret.body)[i].assessment = None
            /\ Records(ret.body)[i].enrichment = None

\* C21: the enrichment cache is transparent: after any sequence of earlier
\* calls of enrich_by_label, with or without a context, a call returns the
\* profile it would return on an empty cache with the same provider answers;
\* in particular, when no provider supplies a diameter and the context has an
\* estimated-diameter range, the diameter returned is the one derived from
\* that range.
C21_EnrichCacheTransparent ==
    op = "enrich_by_label" =>
        /\ ret = enrich_by_label(EmptyEnrichCache, arg.label,
                                 arg.neo_context, clock)[1]
        /\ ((/\ arg.neo_context = Some(ContextWithRange)
             /\ Got(world.ssodnet[arg.label], "card", "diameter_km") = None
             /\ Got(world.sbdb[arg.label], "phys", "diameter_km") = None)
                => ret.diameter_km = _diameter_from_neows(ContextWithRange))

LevelGated == {Monitoring, Coordination, StandoffNuclear}

RECURSIVE PagesFrom(_, _, _)
PagesFrom(bodies, page, pages) ==
    IF page >= pages THEN <<>>
    ELSE Records(bodies[page]) \o PagesFrom(bodies, page + 1, pages)

Passes(neo, f, now) == _passes_filters(neo, f, now).val

\* The positions of the records to return: passing, and no passing record
\* of the same id before.
FirstPassing(all, f, now) ==
    {i \in DOMAIN all :
        /\ Passes(all[i], f, now)
        /\ \A j \in 1..(i - 1) :
              all[j].id = all[i].id => ~Passes(all[j], f, now)}

Nth(S, k) == CHOOSE i \in S : Cardinality({j \in S : j <= i}) = k

SsodContributed(a) ==
    IF a.outcome = "card" /\ AnyTruthy(a) THEN SsodSupplied(a) ELSE {}

SbdbContributed(a, b) ==
    {k \in {"mass_kg", "density_g_cm3", "diameter_km"} :
        /\ k \notin SsodContributed(a)
        /\ Got(b, "phys", k) # None}

C24_ProfileComplete ==
    op = "enrich_by_label" =>
        LET a == world.ssodnet[arg.label]
            b == world.sbdb[arg.label]
        IN  /\ ret.density_g_cm3 # None
            /\ ret.source \in {Some("ssodnet"), Some("sbdb"), Some("estimate")}
            /\ (ret.source = Some("estimate"))
                  <=> (SsodContributed(a) = {} /\ SbdbContributed(a, b) = {})
            /\ ((ret.diameter_km # None /\ ret.diameter_km[1] > 0)
                  => ret.mass_kg # None)

============================================================================
